---- MODULE Spec2Model ----
(***************************************************************************)
(* Deployment execution engine of Adapt: the per-node status tracker       *)
(* (core/src/deploy/status_tracker.ts), the history commit latch and the   *)
(* buildAndDeploy pass loop (core/src/ops/buildAndDeploy.ts), and the      *)
(* plugin manager that drives the act phase over a dependency graph.       *)
(***************************************************************************)
EXTENDS Integers, Sequences, FiniteSets, TLC

\* ------------------------------------------------------------------------
\* Bounds
\* ------------------------------------------------------------------------
NumNodes == 2

\* number of distinct entry payloads (domXml, observations, dependencies)
MaxData == 2

\* number of deploy passes one buildAndDeploy call may start
MaxPasses == 3

\* number of actions (one per plan node) that analyze returns
NumActions == 3

\* number of observer names that can be registered or asked for
NumObservers == 3

\* longest path handed to StyleRule.match
MaxPath == 3

\* most fragments in one selector block handed to StyleRule.match
MaxFrags == 3

\* most rules in a style list
NumRules == 3

\* most children of the root of a tree that is built
MaxKids == 2

\* most state mutations a component makes over a build
MaxMutations == 3

\* element instances after which a rule that keeps replacing its own
\* replacement is no longer followed
MaxElems == 8

\* passes after which a build that still mutates state is given up
maxBuildPasses == 3

\* the id of the replacement element in the style tests
ReplaceId == 123

\* ------------------------------------------------------------------------
\* Deploy status vocabulary (deploy_types)
\* ------------------------------------------------------------------------
DeployStatus ==
    {"Initial", "Waiting", "Deploying", "Destroying", "Deployed", "Failed", "Destroyed"}

InternalStatus == {"ProxyDeploying", "ProxyDestroying"}

DeployStatusExt == DeployStatus \cup InternalStatus

GoalStatus == {"Deployed", "Destroyed"}

DeployOpStatus == DeployStatus \cup {"StateChanged"}

toDeployStatus(stat) ==
    IF stat = "ProxyDeploying" THEN "Deploying"
    ELSE IF stat = "ProxyDestroying" THEN "Destroying"
    ELSE stat

isGoalStatus(stat) == stat \in {"Deployed", "Destroyed"}

isFinalStatus(stat) == stat = "Failed" \/ isGoalStatus(stat)

isInProgress(stat) == stat \in {"Deploying", "Destroying"}

isProxying(stat) == stat \in {"ProxyDeploying", "ProxyDestroying"}

goalToInProgress(stat) == IF stat = "Deployed" THEN "Deploying" ELSE "Destroying"

TaskState == {"Created", "Started", "Complete", "Failed", "Skipped"}

\* ------------------------------------------------------------------------
\* Nodes of the execution plan handed to the tracker
\* ------------------------------------------------------------------------
Nodes == 1..NumNodes

\* n.element: nodes 3, 6, ... are synthetic nodes that carry no element
hasElement(n) == n % 3 # 0

\* isFinalDomElement(n.element): nodes 1, 4, ... carry a primitive element
isFinalDomElement(n) == n % 3 = 1

shouldTrackStatus(n) == hasElement(n)

VARIABLES
    \* StatusTrackerImpl fields
    dryRun, goalStatus, statMap, nodeStatus, primStatus, nonPrimStatus,
    taskMap, stepID,
    \* deployment store, status side
    stepCount, stepStatus, elementStatus,
    \* last call made on the tracker and what it returned
    trkCall, trkRet,
    \* element status writes of set calls that have not reached the store
    pendingWrites,
    \* currentState: options.dryRun, the lastCommit latch, the deployment
    \* store's history, and the last commit call with its outcome
    optDryRun, lastCommit, history, cmtCall, cmtRet,
    \* buildAndDeploy: control point, passes started, the last pass result,
    \* the error being propagated, the act task, the data directory, the
    \* plugin manager of the current pass, the domXml, observations and
    \* dependencies of the current pass, every commit call made, outcome
    pc, passNo, res, thrown, actTask, dataDir, releases,
    mgrLive, passDom, passObs, passDeps, cmtLog, outcome,
    \* plugin manager: phase, last call and its outcome, the dependency graph
    \* from analyze, each action's executor state, the order executors were
    \* started in, and what act resolved to
    mgrState, mgrCall, mgrRet, deps, executed, startOrder, actResult,
    \* observer registry: the registered observers by name, the observerName
    \* of each plugin's constructor and the outcome of the last
    \* registerObserver; of the last observe call: the queries and the names
    \* it was given, each observer's promise, the results and errors
    \* collected, the warnings logged and what the call settled to
    observers, observerName, regRet, executedQueries, observerNames, waitFors,
    retMap, errors, warnings, obsRet,
    \* style engine: the parsed selector and the path of one StyleRule.match
    \* call and its result; the match registry of the current build pass
    selector, path, matched, matchInfoReg,
    \* build: the style list and the tree being built, component state, the
    \* pass counter, the position and element being mounted, the tree built
    \* so far, the next element instance, every override invocation made,
    \* the last override with its outcome, whether this pass mutated state,
    \* and the state of the build
    styles, dom, compState, buildPass, pos, cur, built, nextInst, invoked,
    lastOverride, passChanged, buildState,
    \* withOpsSetup: where the call stands, its task, its logger and what it
    \* settled to; the plugin modules of the context, the last registerPlugin
    \* call and the plugins the last plugin manager started
    ops, plugins

trackerVars ==
    <<dryRun, goalStatus, statMap, nodeStatus, primStatus, nonPrimStatus,
      taskMap, stepID, stepCount, stepStatus, elementStatus, trkCall, trkRet,
      pendingWrites>>

commitVars == <<optDryRun, lastCommit, history, cmtCall, cmtRet>>

deployVars ==
    <<pc, passNo, res, thrown, actTask, dataDir, releases,
    mgrLive, passDom, passObs, passDeps, cmtLog, outcome>>

mgrVars == <<mgrState, mgrCall, mgrRet, deps, executed, startOrder, actResult>>

registryVars ==
    <<observers, observerName, regRet, executedQueries, observerNames, waitFors,
      retMap, errors, warnings, obsRet>>

matchVars == <<selector, path, matched>>

buildVars ==
    <<styles, dom, compState, buildPass, pos, cur, built, nextInst, invoked,
      lastOverride, passChanged, buildState>>

styleVars == <<matchVars, matchInfoReg, buildVars>>

opsVars == <<ops, plugins>>

vars ==
    <<trackerVars, commitVars, deployVars, mgrVars, registryVars, styleVars, opsVars>>

\* what the operations of one component leave alone
outsideTracker ==
    <<commitVars, deployVars, mgrVars, registryVars, styleVars, opsVars>>

outsideCommit ==
    <<trackerVars, deployVars, mgrVars, registryVars, styleVars, opsVars>>

outsideDeploy ==
    <<trackerVars, mgrVars, registryVars, styleVars, opsVars>>

outsideMgr ==
    <<commitVars, deployVars, trkCall, trkRet, registryVars, styleVars, opsVars>>

outsideRegistry ==
    <<trackerVars, commitVars, deployVars, mgrVars, styleVars, opsVars>>

outsideStyle ==
    <<trackerVars, commitVars, deployVars, mgrVars, registryVars, opsVars>>

outsideOps ==
    <<trackerVars, commitVars, deployVars, mgrVars, registryVars, styleVars>>

\* ------------------------------------------------------------------------
\* StatusTrackerImpl as a value; the operations below map tracker to tracker
\* ------------------------------------------------------------------------
NoStatus == [deployStatus |-> "none", error |-> FALSE]

This ==
    [dryRun |-> dryRun, goalStatus |-> goalStatus, statMap |-> statMap,
     nodeStatus |-> nodeStatus, primStatus |-> primStatus,
     nonPrimStatus |-> nonPrimStatus, taskMap |-> taskMap, stepID |-> stepID,
     stepCount |-> stepCount, stepStatus |-> stepStatus,
     elementStatus |-> elementStatus]

Install(t) ==
    /\ dryRun' = t.dryRun
    /\ goalStatus' = t.goalStatus
    /\ statMap' = t.statMap
    /\ nodeStatus' = t.nodeStatus
    /\ primStatus' = t.primStatus
    /\ nonPrimStatus' = t.nonPrimStatus
    /\ taskMap' = t.taskMap
    /\ stepID' = t.stepID
    /\ stepCount' = t.stepCount
    /\ stepStatus' = t.stepStatus
    /\ elementStatus' = t.elementStatus
    /\ pendingWrites' = pendingWrites

newStatus == [k \in DeployStatus |-> 0]

\* constructor: every node Waiting, counters seeded, one task per element node
StatusTrackerImpl(isDry, goal, steps, nodes) ==
    [dryRun |-> isDry, goalStatus |-> goal,
     statMap |-> [n \in nodes |-> "Waiting"],
     nodeStatus |-> [newStatus EXCEPT !["Waiting"] = Cardinality(nodes)],
     primStatus |-> [newStatus EXCEPT !["Waiting"] =
                        Cardinality({n \in nodes : hasElement(n) /\ isFinalDomElement(n)})],
     nonPrimStatus |-> [newStatus EXCEPT !["Waiting"] =
                        Cardinality({n \in nodes : hasElement(n) /\ ~isFinalDomElement(n)})],
     taskMap |-> [n \in nodes |-> IF shouldTrackStatus(n) THEN "Created" ELSE "NoTask"],
     stepID |-> 0,
     stepCount |-> steps,
     stepStatus |-> "none",
     elementStatus |-> [n \in nodes |-> NoStatus]]

initDeploymentStatus(t) ==
    IF t.dryRun THEN t
    ELSE [t EXCEPT !.stepID = t.stepCount + 1,
                   !.stepCount = t.stepCount + 1,
                   !.stepStatus = goalToInProgress(t.goalStatus),
                   !.elementStatus = [n \in DOMAIN t.statMap |->
                        IF hasElement(n)
                        THEN [deployStatus |-> toDeployStatus(t.statMap[n]), error |-> FALSE]
                        ELSE NoStatus]]

createStatusTracker(isDry, goal, steps, nodes) ==
    initDeploymentStatus(StatusTrackerImpl(isDry, goal, steps, nodes))

\* updateCount that counts only the nodes that have an element
updateCount_elementsOnly(t, n, oldStat, newStat) ==
    LET move(c) == [[c EXCEPT ![oldStat] = @ - 1] EXCEPT ![newStat] = @ + 1]
    IN [t EXCEPT !.nodeStatus = IF hasElement(n) THEN move(@) ELSE @,
                 !.primStatus =
                     IF hasElement(n) /\ isFinalDomElement(n) THEN move(@) ELSE @,
                 !.nonPrimStatus =
                     IF hasElement(n) /\ ~isFinalDomElement(n) THEN move(@) ELSE @]

updateCount(t, n, oldStat, newStat) ==
    LET move(c) == [[c EXCEPT ![oldStat] = @ - 1] EXCEPT ![newStat] = @ + 1]
    IN [t EXCEPT !.nodeStatus = move(@),
                 !.primStatus =
                     IF hasElement(n) /\ isFinalDomElement(n) THEN move(@) ELSE @,
                 !.nonPrimStatus =
                     IF hasElement(n) /\ ~isFinalDomElement(n) THEN move(@) ELSE @]

\* updateTask that reports a dry run like a real run
updateTask_ignoresDryRun(t, n, oldStat, newStat, err) ==
    LET task == t.taskMap[n]
        to(s) == [t EXCEPT !.taskMap[n] = s]
    IN IF ~shouldTrackStatus(n) THEN t
       ELSE IF err THEN to("Failed")
       ELSE IF isInProgress(newStat) /\ ~isProxying(oldStat)
            THEN IF task = "Created" THEN to("Started") ELSE t
       ELSE IF isGoalStatus(newStat)
            THEN IF task = "Started" THEN to("Complete") ELSE t
       ELSE t

\* updateTask that completes a task on the goal status whatever its state
updateTask_completesUnstarted(t, n, oldStat, newStat, err) ==
    LET task == t.taskMap[n]
        to(s) == [t EXCEPT !.taskMap[n] = s]
    IN IF ~shouldTrackStatus(n) THEN t
       ELSE IF err THEN to("Failed")
       ELSE IF t.dryRun
            THEN IF isGoalStatus(newStat) /\ task \in {"Created", "Started"}
                 THEN to("Skipped") ELSE t
       ELSE IF isInProgress(newStat) /\ ~isProxying(oldStat)
            THEN IF task = "Created" THEN to("Started") ELSE t
       ELSE IF isGoalStatus(newStat)
            THEN IF task \in {"Created", "Started"} THEN to("Complete") ELSE t
       ELSE t

updateTask(t, n, oldStat, newStat, err) ==
    LET task == t.taskMap[n]
        to(s) == [t EXCEPT !.taskMap[n] = s]
    IN IF ~shouldTrackStatus(n) THEN t
       ELSE IF err THEN to("Failed")
       ELSE IF t.dryRun
            THEN IF isGoalStatus(newStat) /\ task \in {"Created", "Started"}
                 THEN to("Skipped") ELSE t
       ELSE IF isInProgress(newStat) /\ ~isProxying(oldStat)
            THEN IF task = "Created" THEN to("Started") ELSE t
       ELSE IF isGoalStatus(newStat)
            THEN IF task = "Started" THEN to("Complete") ELSE t
       ELSE t

\* writeStatus that does not look at the step ID
writeStatus_withoutStep(t, n, err) ==
    IF ~hasElement(n) THEN t
    ELSE [t EXCEPT !.elementStatus[n] =
              [deployStatus |-> toDeployStatus(t.statMap[n]), error |-> err]]

writeStatus(t, n, err) ==
    IF ~hasElement(n) \/ t.stepID = 0 THEN t
    ELSE [t EXCEPT !.elementStatus[n] =
              [deployStatus |-> toDeployStatus(t.statMap[n]), error |-> err]]

\* set without the final-status guard
set_ignoresFinal(t, n, statExt, err) ==
    LET oldStat == t.statMap[n] IN
    IF statExt = oldStat
    THEN [t |-> t, ret |-> FALSE]
    ELSE LET deployStatus == toDeployStatus(statExt)
             t1 == [t EXCEPT !.statMap[n] = statExt]
             t2 == updateCount(t1, n, toDeployStatus(oldStat), deployStatus)
             t3 == updateTask(t2, n, oldStat, deployStatus, err)
             t4 == writeStatus(t3, n, err)
         IN [t |-> t4, ret |-> TRUE]

\* set: [t |-> tracker afterwards, ret |-> the boolean it resolves to]
set(t, n, statExt, err) ==
    LET oldStat == t.statMap[n] IN
    IF statExt = oldStat \/ isFinalStatus(oldStat)
    THEN [t |-> t, ret |-> FALSE]
    ELSE LET deployStatus == toDeployStatus(statExt)
             t1 == [t EXCEPT !.statMap[n] = statExt]
             t2 == updateCount(t1, n, toDeployStatus(oldStat), deployStatus)
             t3 == updateTask(t2, n, oldStat, deployStatus, err)
             t4 == writeStatus(t3, n, err)
         IN [t |-> t4, ret |-> TRUE]

isFinal(t, n) == isFinalStatus(t.statMap[n])

isActive(t, n) == ~isFinalStatus(t.statMap[n])

\* deployment status that counts only nodes at the tracker's own goal
deploymentStatusOf_ownGoalOnly(t, stateChanged) ==
    LET atGoal == t.nodeStatus[t.goalStatus] IN
    IF t.nodeStatus["Failed"] > 0 THEN "Failed"
    ELSE IF atGoal = Cardinality(DOMAIN t.statMap) THEN t.goalStatus
    ELSE IF stateChanged THEN "StateChanged"
    ELSE goalToInProgress(t.goalStatus)

\* deployment status that takes every final node, failed or not, as at goal
deploymentStatusOf_finalCountsAsGoal(t, stateChanged) ==
    LET atGoal == t.nodeStatus["Deployed"] + t.nodeStatus["Destroyed"]
                  + t.nodeStatus["Failed"] IN
    IF atGoal = Cardinality(DOMAIN t.statMap) THEN t.goalStatus
    ELSE IF t.nodeStatus["Failed"] > 0 THEN "Failed"
    ELSE IF stateChanged THEN "StateChanged"
    ELSE goalToInProgress(t.goalStatus)

deploymentStatusOf(t, stateChanged) ==
    LET atGoal == t.nodeStatus["Deployed"] + t.nodeStatus["Destroyed"] IN
    IF t.nodeStatus["Failed"] > 0 THEN "Failed"
    ELSE IF atGoal = Cardinality(DOMAIN t.statMap) THEN t.goalStatus
    ELSE IF stateChanged THEN "StateChanged"
    ELSE goalToInProgress(t.goalStatus)

\* complete without the Initial check
complete_noInitialCheck(t, stateChanged) ==
    LET deploymentStatus == deploymentStatusOf(t, stateChanged)
    IN [t |-> IF t.stepID # 0
              THEN [t EXCEPT !.stepStatus = deploymentStatus] ELSE t,
        ret |-> deploymentStatus]

\* complete: [t |-> tracker afterwards, ret |-> deploymentStatus or "InternalError"]
complete(t, stateChanged) ==
    IF t.nodeStatus["Initial"] > 0
    THEN [t |-> t, ret |-> "InternalError"]
    ELSE LET deploymentStatus == deploymentStatusOf(t, stateChanged)
         IN [t |-> IF t.stepID # 0
                   THEN [t EXCEPT !.stepStatus = deploymentStatus] ELSE t,
             ret |-> deploymentStatus]

\* ------------------------------------------------------------------------
\* The tracker under arbitrary calls
\* ------------------------------------------------------------------------
NoCall == [op |-> "none"]

\* no pass has returned: valid marks a result that deployPass returned
NoRes == [deployComplete |-> FALSE, stateChanged |-> FALSE, valid |-> FALSE]

PlanNodes == 1..NumActions

IdleMgr ==
    /\ mgrState = "PreStart"
    /\ mgrCall = [op |-> "none"]
    /\ mgrRet = [kind |-> "none", from |-> "", to |-> ""]
    /\ deps = [n \in PlanNodes |-> {}]
    /\ executed = [n \in PlanNodes |-> "none"]
    /\ startOrder = <<>>
    /\ actResult = [valid |-> FALSE]

\* the names observers are registered and asked for under
ObserverNames == 1..NumObservers

\* the observer plugins there are to register, each of a class of its own
ObserverPlugins == {"obsA", "obsB"}

\* const observers: ObserverRecord = {}
NoObservers == [n \in {} |-> ""]

\* const ret: Observations = {} (retMap below)
NoResults == [n \in {} |-> 0]

\* executedQueries without a key
NoQueries == [n \in {} |-> <<>>]

\* the registry as the module leaves it when loaded, and no observe call
IdleRegistry ==
    /\ observers = NoObservers
    /\ observerName = [o \in ObserverPlugins |-> 0]
    /\ regRet = [kind |-> "none"]
    /\ executedQueries = NoQueries
    /\ observerNames = {}
    /\ waitFors = [n \in ObserverNames |-> "none"]
    /\ retMap = NoResults
    /\ errors = <<>>
    /\ warnings = <<>>
    /\ obsRet = [kind |-> "none"]

\* createMatchInfoReg: a registry without entries
createMatchInfoReg == [el \in {} |-> 0]

NoElement == [inst |-> 0, componentType |-> "null", id |-> 0]

NoOverride ==
    [rule |-> 0, sfc |-> "none", orig |-> 0, result |-> 0, pass |-> 0,
     origMatched |-> {}]

\* no tree is being built
NoTree == [root |-> "null", kids |-> <<>>, count |-> 0]

\* what a matcher throws: nothing, or an error that names the syntax
NoError == [error |-> "none", syntax |-> "none"]

Thrown(error, syntax) == [error |-> error, syntax |-> syntax]

\* match has not been called
NotMatched == [called |-> FALSE, result |-> FALSE, thrown |-> NoError]

\* withOpsSetup has not been called
NoOps ==
    [pc |-> "none", task |-> "none", messages |-> <<>>, func |-> [kind |-> "none"],
     started |-> 0, complete |-> 0, failed |-> 0, ret |-> [kind |-> "none"]]

\* no plugin has registered
NoModules == [k \in {} |-> ""]

NoPlugins == [modules |-> NoModules, ret |-> [kind |-> "none"], started |-> {}]

\* no operation is set up and no plugin is registered
IdleOps ==
    /\ ops = NoOps
    /\ plugins = NoPlugins

\* no selector is being matched and nothing is being built
IdleStyle ==
    /\ selector = <<>>
    /\ path = <<>>
    /\ matched = NotMatched
    /\ matchInfoReg = createMatchInfoReg
    /\ styles = <<>>
    /\ dom = NoTree
    /\ compState = <<>>
    /\ buildPass = 0
    /\ pos = 0
    /\ cur = NoElement
    /\ built = [root |-> NoElement, kids |-> <<>>]
    /\ nextInst = 1
    /\ invoked = <<>>
    /\ lastOverride = NoOverride
    /\ passChanged = FALSE
    /\ buildState = "none"

IdleCommit ==
    /\ optDryRun = FALSE
    /\ lastCommit = "none"
    /\ history = <<>>
    /\ cmtCall = [op |-> "none"]
    /\ cmtRet = "none"

IdleDeploy ==
    /\ pc = "idle"
    /\ passNo = 0
    /\ res = NoRes
    /\ thrown = "none"
    /\ actTask = "Created"
    /\ dataDir = "none"
    /\ releases = 0
    /\ mgrLive = FALSE
    /\ passDom = 0
    /\ passObs = 0
    /\ passDeps = 0
    /\ cmtLog = <<>>
    /\ outcome = "none"

\* no tracker exists yet: the fields hold what the constructor would give
IdleTracker ==
    /\ \E t \in {StatusTrackerImpl(FALSE, "Deployed", 0, Nodes)} :
          /\ dryRun = t.dryRun
          /\ goalStatus = t.goalStatus
          /\ statMap = t.statMap
          /\ nodeStatus = t.nodeStatus
          /\ primStatus = t.primStatus
          /\ nonPrimStatus = t.nonPrimStatus
          /\ taskMap = t.taskMap
          /\ stepID = t.stepID
          /\ stepCount = t.stepCount
          /\ stepStatus = t.stepStatus
          /\ elementStatus = t.elementStatus
    /\ trkCall = NoCall
    /\ trkRet = "none"
    /\ pendingWrites = {}

InitTracker ==
    /\ IdleOps
    /\ IdleRegistry
    /\ IdleStyle
    /\ IdleCommit
    /\ IdleDeploy
    /\ IdleMgr
    /\ \E isDry \in BOOLEAN, goal \in GoalStatus :
          LET t == createStatusTracker(isDry, goal, 0, Nodes) IN
          /\ dryRun = t.dryRun
          /\ goalStatus = t.goalStatus
          /\ statMap = t.statMap
          /\ nodeStatus = t.nodeStatus
          /\ primStatus = t.primStatus
          /\ nonPrimStatus = t.nonPrimStatus
          /\ taskMap = t.taskMap
          /\ stepID = t.stepID
          /\ stepCount = t.stepCount
          /\ stepStatus = t.stepStatus
          /\ elementStatus = t.elementStatus
    /\ trkCall = NoCall
    /\ trkRet = "none"
    /\ pendingWrites = {}

Set(n, statExt, err) ==
    \E r \in {set(This, n, statExt, err)} :
    /\ Install(r.t)
    /\ trkCall' = [op |-> "set", n |-> n]
    /\ trkRet' = r.ret

Complete(stateChanged) ==
    \E r \in {complete(This, stateChanged)} :
    /\ Install(r.t)
    /\ trkCall' = [op |-> "complete", stateChanged |-> stateChanged]
    /\ trkRet' = r.ret

\* statuses requested of set: the Destroying family takes the same code
\* paths as the Deploying family and is reached through the goal status only
SetInputs == DeployStatusExt \ {"Destroying", "ProxyDestroying"}

TrackerSet ==
    /\ \E n \in Nodes, statExt \in SetInputs, e \in BOOLEAN : Set(n, statExt, e)
    /\ UNCHANGED outsideTracker

TrackerComplete ==
    /\ \E stateChanged \in BOOLEAN : Complete(stateChanged)
    /\ UNCHANGED outsideTracker

NextTracker ==
    \/ TrackerSet
    \/ TrackerComplete

SpecTracker == InitTracker /\ [][NextTracker]_vars

\* ------------------------------------------------------------------------
\* StatusTrackerImpl with set calls that overlap: set runs up to its await
\* in one step, and the element status write it awaits lands later
\* ------------------------------------------------------------------------
\* the node sets a tracker is made for: node 0, which has no element, with
\* one other node
AsyncNodeSets == {{0, n} : n \in Nodes}

\* set up to the await in writeStatus: the status, the counters and the task
\* are updated, and for a node with an element and a tracker with a step ID
\* the element status to write has been read
setStarts(t, n, statExt, err) ==
    LET oldStat == t.statMap[n] IN
    IF statExt = oldStat \/ isFinalStatus(oldStat)
    THEN [t |-> t, ret |-> FALSE, writes |-> {}]
    ELSE LET deployStatus == toDeployStatus(statExt)
             t1 == [t EXCEPT !.statMap[n] = statExt]
             t2 == updateCount(t1, n, toDeployStatus(oldStat), deployStatus)
             t3 == updateTask(t2, n, oldStat, deployStatus, err)
         IN [t |-> t3, ret |-> TRUE,
             writes |-> IF ~hasElement(n) \/ t.stepID = 0 THEN {}
                        ELSE {[n |-> n, deployStatus |-> deployStatus, error |-> err]}]

InitTrackerAsync ==
    /\ IdleOps
    /\ IdleRegistry
    /\ IdleStyle
    /\ IdleCommit
    /\ IdleDeploy
    /\ IdleMgr
    /\ \E isDry \in BOOLEAN, goal \in GoalStatus, nodes \in AsyncNodeSets :
          LET t == createStatusTracker(isDry, goal, 0, nodes) IN
          /\ dryRun = t.dryRun
          /\ goalStatus = t.goalStatus
          /\ statMap = t.statMap
          /\ nodeStatus = t.nodeStatus
          /\ primStatus = t.primStatus
          /\ nonPrimStatus = t.nonPrimStatus
          /\ taskMap = t.taskMap
          /\ stepID = t.stepID
          /\ stepCount = t.stepCount
          /\ stepStatus = t.stepStatus
          /\ elementStatus = t.elementStatus
    /\ trkCall = NoCall
    /\ trkRet = "none"
    /\ pendingWrites = {}

\* a set call runs up to its await while the writes of earlier calls, for
\* other nodes, are still on their way
TrackerSetStarts ==
    /\ \E n \in DOMAIN statMap, statExt \in SetInputs, e \in BOOLEAN :
       \E r \in {setStarts(This, n, statExt, e)} :
          /\ \A w \in pendingWrites : w.n # n
          /\ dryRun' = r.t.dryRun
          /\ goalStatus' = r.t.goalStatus
          /\ statMap' = r.t.statMap
          /\ nodeStatus' = r.t.nodeStatus
          /\ primStatus' = r.t.primStatus
          /\ nonPrimStatus' = r.t.nonPrimStatus
          /\ taskMap' = r.t.taskMap
          /\ stepID' = r.t.stepID
          /\ stepCount' = r.t.stepCount
          /\ stepStatus' = r.t.stepStatus
          /\ elementStatus' = r.t.elementStatus
          /\ pendingWrites' = pendingWrites \cup r.writes
          /\ trkCall' = [op |-> "set", n |-> n, err |-> e]
          /\ trkRet' = r.ret
    /\ UNCHANGED outsideTracker

\* deployment.elementStatus of one pending set call reaches the store
WriteStatusLands ==
    /\ \E w \in pendingWrites :
          /\ elementStatus' = [elementStatus EXCEPT ![w.n] =
                                  [deployStatus |-> w.deployStatus, error |-> w.error]]
          /\ pendingWrites' = pendingWrites \ {w}
    /\ UNCHANGED <<dryRun, goalStatus, statMap, nodeStatus, primStatus, nonPrimStatus,
                   taskMap, stepID, stepCount, stepStatus, trkCall, trkRet>>
    /\ UNCHANGED outsideTracker

NextTrackerAsync ==
    \/ TrackerSetStarts
    \/ WriteStatusLands

SpecTrackerAsync == InitTrackerAsync /\ [][NextTrackerAsync]_vars

\* the tracked nodes whose status maps to s
NodesIn(s) == {n \in DOMAIN statMap : toDeployStatus(statMap[n]) = s}

RECURSIVE SumOver(_, _)
SumOver(counter, S) ==
    IF S = {} THEN 0
    ELSE LET s == CHOOSE x \in S : TRUE
         IN counter[s] + SumOver(counter, S \ {s})

\* C35: in every state of a tracker, also between a set call and the arrival
\* of its element status write and while other set calls run, nodeStatus[s]
\* is the number of tracked nodes whose status maps to s, primStatus[s] and
\* nonPrimStatus[s] split the nodes with an element in s into final DOM
\* elements and the others, no counter is negative and the nodeStatus
\* counters add up to the number of nodes; a node without an element is
\* counted in nodeStatus.
C35_CountersMatchStatuses ==
    /\ \A s \in DeployStatus :
          /\ nodeStatus[s] = Cardinality(NodesIn(s))
          /\ primStatus[s] =
                Cardinality({n \in NodesIn(s) : hasElement(n) /\ isFinalDomElement(n)})
          /\ nonPrimStatus[s] =
                Cardinality({n \in NodesIn(s) : hasElement(n) /\ ~isFinalDomElement(n)})
          /\ primStatus[s] + nonPrimStatus[s] =
                Cardinality({n \in NodesIn(s) : hasElement(n)})
          /\ nodeStatus[s] >= 0
          /\ primStatus[s] >= 0
          /\ nonPrimStatus[s] >= 0
    /\ SumOver(nodeStatus, DeployStatus) = Cardinality(DOMAIN statMap)

\* a set call for the node without an element has run while the write of a
\* set call for the other node is still on its way
C35_Witness ==
    /\ pendingWrites # {}
    /\ \E n \in DOMAIN statMap :
          /\ ~hasElement(n)
          /\ statMap[n] # "Waiting"
          /\ nodeStatus[toDeployStatus(statMap[n])] >= 1
          /\ primStatus[toDeployStatus(statMap[n])]
               + nonPrimStatus[toDeployStatus(statMap[n])]
               < nodeStatus[toDeployStatus(statMap[n])]
    /\ trkCall.op = "set"
    /\ ~hasElement(trkCall.n)
    /\ trkRet = TRUE

\* this step is a set call for node n, run up to its await
SetCallOn(n) ==
    /\ trkCall'.op = "set"
    /\ trkCall'.n = n
    /\ pendingWrites \subseteq pendingWrites'
    /\ taskMap[n] # "NoTask"

\* the task of node n enters state s in this step
Becomes(n, s) == taskMap[n] # s /\ taskMap'[n] = s

\* when a task is started, completed or skipped
TaskMarkedOnlyWhen(n) ==
    /\ Becomes(n, "Started") =>
          /\ ~dryRun
          /\ ~trkCall'.err
          /\ isInProgress(toDeployStatus(statMap'[n]))
          /\ statMap'[n] # statMap[n]
          /\ ~isProxying(statMap[n])
          /\ taskMap[n] = "Created"
    /\ Becomes(n, "Complete") =>
          /\ ~dryRun
          /\ ~trkCall'.err
          /\ isGoalStatus(toDeployStatus(statMap'[n]))
          /\ statMap'[n] # statMap[n]
          /\ taskMap[n] = "Started"
    /\ Becomes(n, "Skipped") =>
          /\ dryRun
          /\ ~trkCall'.err
          /\ isGoalStatus(toDeployStatus(statMap'[n]))
          /\ statMap'[n] # statMap[n]
    /\ Becomes(n, "Failed") => trkCall'.err /\ statMap'[n] # statMap[n]

\* a set call without an error that changes the status marks the task
TaskMarkedWhen(n) ==
    (trkRet' = TRUE /\ ~trkCall'.err) =>
        /\ (/\ ~dryRun
            /\ isInProgress(toDeployStatus(statMap'[n]))
            /\ ~isProxying(statMap[n])
            /\ taskMap[n] = "Created") => taskMap'[n] = "Started"
        /\ (/\ ~dryRun
            /\ isGoalStatus(toDeployStatus(statMap'[n]))
            /\ taskMap[n] = "Started") => taskMap'[n] = "Complete"
        /\ (/\ dryRun
            /\ isGoalStatus(toDeployStatus(statMap'[n]))
            /\ taskMap[n] \in {"Created", "Started"}) => taskMap'[n] = "Skipped"

ActCompletesEveryTask ==
    (/\ actResult.valid
     /\ ~actResult.dryRun
     /\ actResult.deployComplete
     /\ mgrState = "PreFinish") =>
        \A n \in DOMAIN statMap : taskMap[n] \in {"Complete", "NoTask"}

\* ------------------------------------------------------------------------
\* Properties of the status tracker
\* ------------------------------------------------------------------------
FinalStatuses == {"Failed", "Deployed", "Destroyed"}

TrackedFields ==
    <<statMap, nodeStatus, primStatus, nonPrimStatus, taskMap, elementStatus>>

\* C3: set(n, s) on a node that is already Failed, Deployed or Destroyed, or
\* already at status s, returns false and leaves the node's status, every
\* counter, the node's task and the persisted element status unchanged; a
\* node that has reached a final status never changes status again.
C3_SetIsNoOpWhenFinalOrSame ==
    [][ /\ trkCall'.op = "set" =>
             LET n == trkCall'.n IN
             (\/ statMap[n] \in FinalStatuses
              \/ \E e \in BOOLEAN : Set(n, statMap[n], e))
                 => (trkRet' = FALSE /\ UNCHANGED TrackedFields)
        /\ \A n \in Nodes :
             statMap[n] \in FinalStatuses => statMap'[n] = statMap[n] ]_vars

C3_Witness ==
    /\ trkCall.op = "set"
    /\ trkRet = FALSE
    /\ statMap[trkCall.n] = "Failed"
    /\ taskMap[trkCall.n] = "Failed"
    /\ ~dryRun

\* deployment status as the claim states it, read off the node statuses
ExpectedDeploymentStatus(stateChanged) ==
    IF \E n \in Nodes : statMap[n] = "Failed" THEN "Failed"
    ELSE IF \A n \in Nodes : statMap[n] \in {"Deployed", "Destroyed"} THEN goalStatus
    ELSE IF stateChanged THEN "StateChanged"
    ELSE IF goalStatus = "Deployed" THEN "Deploying" ELSE "Destroying"

\* C4: when no node is Initial, complete(stateChanged) returns Failed if some
\* node is Failed, else the goal status if every node is Deployed or
\* Destroyed, else StateChanged if stateChanged, else the in-progress variant
\* of the goal; outside dry-run that value is persisted as the step's
\* deployStatus; no node status and no counter changes.
C4_CompleteComputesStatus ==
    [][ trkCall'.op = "complete" =>
          /\ (\A n \in Nodes : statMap[n] # "Initial") =>
                /\ trkRet' = ExpectedDeploymentStatus(trkCall'.stateChanged)
                /\ ~dryRun => stepStatus' = trkRet'
          /\ UNCHANGED TrackedFields ]_vars

C4_Witness ==
    /\ trkCall.op = "complete"
    /\ trkRet = goalStatus
    /\ goalStatus = "Deployed"
    /\ \E n \in Nodes : statMap[n] = "Destroyed"
    /\ ~dryRun
    /\ stepStatus = "Deployed"

\* C5: complete() fails with InternalError exactly when some node is Initial,
\* and then persists no step status; a freshly created tracker has every
\* node Waiting, so complete() on it does not fail that way.
C5_CompleteFaultsIffInitial ==
    /\ [](trkCall.op = "none" => \A n \in Nodes : statMap[n] = "Waiting")
    /\ [][ trkCall'.op = "complete" =>
              /\ (trkRet' = "InternalError") <=> (\E n \in Nodes : statMap[n] = "Initial")
              /\ trkRet' = "InternalError" => stepStatus' = stepStatus ]_vars

C5_Witness ==
    /\ trkCall.op = "complete"
    /\ trkRet = "InternalError"
    /\ \E n \in Nodes : statMap[n] = "Initial"
    /\ ~dryRun

\* ------------------------------------------------------------------------
\* currentState: the commit function and its lastCommit latch
\* ------------------------------------------------------------------------
HistoryStatus == {"preAct", "success", "failed"}

isStatusComplete(status) == status \in {"success", "failed"}

Data == 1..MaxData

\* CommitData: the status and the serialized tree, observations, dependencies
CommitData(status, domXml, observationsJson, dependenciesJson) ==
    [status |-> status, domXml |-> domXml,
     observationsJson |-> observationsJson, dependenciesJson |-> dependenciesJson]

\* the store of a deployment that is new, or whose previous operation
\* succeeded, or whose previous operation failed in act
PriorHistory ==
    {<<>>,
     <<CommitData("success", 1, 1, 1)>>,
     <<CommitData("preAct", 1, 1, 1), CommitData("failed", 1, 1, 1)>>}

\* the commit closure as a value: the latch, the store and options.dryRun
Closure == [lastCommit |-> lastCommit, history |-> history, dryRun |-> optDryRun]

\* commit without the terminal latch
commit_noLatch(c, entry) ==
    IF c.lastCommit = "preAct" /\ entry.status = "preAct"
    THEN [c |-> c, ret |-> "ok"]
    ELSE [c |-> [c EXCEPT !.lastCommit = entry.status,
                          !.history = IF c.dryRun THEN @ ELSE Append(@, entry)],
          ret |-> "ok"]

\* commit that has no short cut for a repeated preAct
commit_rewritesPreAct(c, entry) ==
    IF c.lastCommit # "none" /\ isStatusComplete(c.lastCommit)
    THEN [c |-> c, ret |-> "InternalError"]
    ELSE [c |-> [c EXCEPT !.lastCommit = entry.status,
                          !.history = IF c.dryRun THEN @ ELSE Append(@, entry)],
          ret |-> "ok"]

\* commit that keeps no latch when nothing is written to the store
commit_dryRunNoLatch(c, entry) ==
    IF c.dryRun THEN [c |-> c, ret |-> "ok"]
    ELSE IF c.lastCommit = "preAct" /\ entry.status = "preAct"
    THEN [c |-> c, ret |-> "ok"]
    ELSE IF c.lastCommit # "none" /\ isStatusComplete(c.lastCommit)
    THEN [c |-> c, ret |-> "InternalError"]
    ELSE [c |-> [c EXCEPT !.lastCommit = entry.status,
                          !.history = Append(@, entry)],
          ret |-> "ok"]

\* commit: [c |-> closure afterwards, ret |-> "ok" or "InternalError"]
commit(c, entry) ==
    IF c.lastCommit = "preAct" /\ entry.status = "preAct"
    THEN [c |-> c, ret |-> "ok"]
    ELSE IF c.lastCommit # "none" /\ isStatusComplete(c.lastCommit)
    THEN [c |-> c, ret |-> "InternalError"]
    ELSE [c |-> [c EXCEPT !.lastCommit = entry.status,
                          !.history = IF c.dryRun THEN @ ELSE Append(@, entry)],
          ret |-> "ok"]

InitCommit ==
    /\ IdleOps
    /\ IdleRegistry
    /\ IdleStyle
    /\ optDryRun \in BOOLEAN
    /\ lastCommit = "none"
    /\ history \in PriorHistory
    /\ cmtCall = [op |-> "none"]
    /\ cmtRet = "none"
    /\ IdleDeploy
    /\ IdleMgr
    /\ IdleTracker

\* one call of the commit function; prev is the latch the call found
Commit(entry) ==
    \E r \in {commit(Closure, entry)} :
    /\ lastCommit' = r.c.lastCommit
    /\ history' = r.c.history
    /\ cmtRet' = r.ret
    /\ cmtCall' = [op |-> "commit", entry |-> entry, prev |-> lastCommit]
    /\ UNCHANGED optDryRun

CommitEntry ==
    /\ \E status \in HistoryStatus, d \in Data :
          Commit(CommitData(status, d, 1, 1))
    /\ UNCHANGED outsideCommit

NextCommit ==
    \/ CommitEntry

SpecCommit == InitCommit /\ [][NextCommit]_vars

\* ------------------------------------------------------------------------
\* Properties of the commit function
\* ------------------------------------------------------------------------
\* C7: committing success (or failed) when the previous commit was that same
\* terminal status throws an InternalError and writes no history entry.
C7_RepeatedTerminalCommitThrows ==
    [][ (/\ cmtCall'.op = "commit"
         /\ lastCommit \in {"success", "failed"}
         /\ cmtCall'.entry.status = lastCommit)
        => (cmtRet' = "InternalError" /\ history' = history) ]_vars

C7_Witness ==
    /\ cmtCall.op = "commit"
    /\ cmtCall.prev = "failed"
    /\ cmtCall.entry.status = "failed"
    /\ cmtRet = "InternalError"
    /\ ~optDryRun
    /\ Len(history) > 0
    /\ history[Len(history)].status = "failed"

\* C8: a preAct commit made directly after a preAct commit returns without
\* error and writes nothing, so that outside dry-run the two commits leave
\* exactly one entry in the store: the first one wrote one, the second none.
C8_RepeatedPreActIsIdempotent ==
    [][ cmtCall'.op = "commit" /\ cmtCall'.entry.status = "preAct" =>
          /\ lastCommit = "preAct" =>
                /\ cmtRet' = "ok"
                /\ history' = history
                /\ lastCommit' = "preAct"
          /\ (lastCommit = "none" /\ ~optDryRun) =>
                /\ cmtRet' = "ok"
                /\ history' = Append(history, cmtCall'.entry) ]_vars

C8_Witness ==
    /\ cmtCall.op = "commit"
    /\ cmtCall.prev = "preAct"
    /\ cmtCall.entry.status = "preAct"
    /\ cmtRet = "ok"
    /\ ~optDryRun
    /\ Cardinality({i \in 1..Len(history) : history[i].status = "preAct"}) = 1

\* C38: once success or failed has been committed, every later commit, of
\* preAct, success or failed, throws an InternalError, writes nothing and
\* leaves the latch as it is; the latch is kept in dry-run as outside it: a
\* dry-run commit of a terminal status sets it although the store is not
\* written
C38_TerminalCommitLatches ==
    /\ [][ (cmtCall'.op = "commit" /\ lastCommit \in {"success", "failed"}) =>
              /\ cmtRet' = "InternalError"
              /\ history' = history
              /\ lastCommit' = lastCommit ]_vars
    /\ [][ (/\ cmtCall'.op = "commit"
            /\ lastCommit \in {"none", "preAct"}
            /\ cmtCall'.entry.status \in {"success", "failed"}) =>
              /\ cmtRet' = "ok"
              /\ lastCommit' = cmtCall'.entry.status
              /\ history' = IF optDryRun THEN history
                            ELSE Append(history, cmtCall'.entry) ]_vars
    /\ [](optDryRun => history \in PriorHistory)

C38_Witness ==
    /\ optDryRun
    /\ cmtCall.op = "commit"
    /\ cmtCall.prev = "success"
    /\ cmtCall.entry.status = "preAct"
    /\ cmtRet = "InternalError"
    /\ lastCommit = "success"
    /\ history = <<>>

\* ------------------------------------------------------------------------
\* Dry run: the tracker and the commit function of one dry-run operation
\* ------------------------------------------------------------------------
\* a dry-run deploy of a deployment that completed once before: the tracker
\* act creates is a dry-run tracker, and the commit function belongs to a
\* currentState with options.dryRun set
InitDryRun ==
    /\ IdleOps
    /\ IdleRegistry
    /\ IdleStyle
    /\ IdleDeploy
    /\ IdleMgr
    /\ optDryRun = TRUE
    /\ lastCommit = "none"
    /\ history = <<CommitData("success", 1, 1, 1)>>
    /\ cmtCall = [op |-> "none"]
    /\ cmtRet = "none"
    /\ \E t \in {createStatusTracker(TRUE, "Deployed", 0, Nodes)} :
          /\ dryRun = t.dryRun
          /\ goalStatus = t.goalStatus
          /\ statMap = t.statMap
          /\ nodeStatus = t.nodeStatus
          /\ primStatus = t.primStatus
          /\ nonPrimStatus = t.nonPrimStatus
          /\ taskMap = t.taskMap
          /\ stepID = t.stepID
          /\ stepCount = t.stepCount
          /\ stepStatus = t.stepStatus
          /\ elementStatus = t.elementStatus
    /\ trkCall = NoCall
    /\ trkRet = "none"
    /\ pendingWrites = {}

\* deployPass and buildAndDeploy commit at the boundaries of a pass
DryRunCommit ==
    /\ \E status \in HistoryStatus :
          Commit(CommitData(status, passDom, passObs, passDeps))
    /\ UNCHANGED outsideCommit

\* act runs after the preAct commit of its pass and before a terminal one
DryRunSet ==
    /\ lastCommit = "preAct"
    /\ TrackerSet

DryRunComplete ==
    /\ lastCommit = "preAct"
    /\ TrackerComplete

NextDryRun ==
    \/ DryRunCommit
    \/ DryRunSet
    \/ DryRunComplete

SpecDryRun == InitDryRun /\ [][NextDryRun]_vars

\* C17: in dry-run no operation writes to the deployment store: the tracker
\* has no step ID and no step was allocated, set and complete leave the
\* step status and every element status unwritten, and commit leaves the
\* history as it was, whatever is called and whatever it returns.
C17_DryRunWritesNothing ==
    /\ [](stepID = 0 /\ stepCount = 0)
    /\ [](stepStatus = "none" /\ \A n \in Nodes : elementStatus[n] = NoStatus)
    /\ [][ /\ stepCount' = stepCount
           /\ stepStatus' = stepStatus
           /\ elementStatus' = elementStatus
           /\ history' = history ]_vars

C17_Witness ==
    /\ optDryRun /\ dryRun
    /\ trkCall.op = "complete"
    /\ trkRet = "Deployed"
    /\ \A n \in Nodes : statMap[n] = "Deployed"
    /\ cmtCall.op = "commit"
    /\ cmtCall.entry.status = "success"
    /\ cmtRet = "ok"
    /\ lastCommit = "success"
    /\ history = <<CommitData("success", 1, 1, 1)>>
    /\ stepID = 0

\* ------------------------------------------------------------------------
\* buildAndDeploy and deployPass
\* ------------------------------------------------------------------------
\* a commit made by buildAndDeploy or deployPass, recorded in cmtLog
DoCommit(status) ==
    /\ Commit(CommitData(status, passDom, passObs, passDeps))
    /\ cmtLog' = Append(cmtLog, [status |-> status, ret |-> cmtRet'])

Throw(e, to) ==
    /\ thrown' = e
    /\ pc' = to

InitDeploy ==
    /\ IdleOps
    /\ IdleRegistry
    /\ IdleStyle
    /\ IdleTracker
    /\ IdleMgr
    /\ optDryRun \in BOOLEAN
    /\ lastCommit = "none"
    /\ history \in PriorHistory
    /\ cmtCall = [op |-> "none"]
    /\ cmtRet = "none"
    /\ pc = "currentState"
    /\ passNo = 0
    /\ res = NoRes
    /\ thrown = "none"
    /\ actTask = "Created"
    /\ dataDir = "none"
    /\ releases = 0
    /\ mgrLive = FALSE
    /\ passDom = 0
    /\ passObs = 0
    /\ passDeps = 0
    /\ cmtLog = <<>>
    /\ outcome = "none"

\* currentState throws before the try block is entered
CurrentState ==
    /\ pc = "currentState"
    /\ \E ok \in BOOLEAN :
          IF ok THEN pc' = "build1" /\ UNCHANGED <<thrown, outcome>>
          ELSE pc' = "done" /\ thrown' = "Error" /\ outcome' = "error"
    /\ UNCHANGED <<passNo, res, actTask, dataDir, releases, mgrLive, passDom, passObs, passDeps, cmtLog>>
    /\ UNCHANGED <<outsideDeploy, commitVars>>

Build1 ==
    /\ pc = "build1"
    /\ \E ok \in BOOLEAN :
          IF ok THEN pc' = "reanimate" /\ UNCHANGED thrown
          ELSE Throw("ProjectBuildError", "finally")
    /\ UNCHANGED <<passNo, res, actTask, dataDir, releases, mgrLive, passDom, passObs, passDeps, cmtLog, outcome>>
    /\ UNCHANGED <<outsideDeploy, commitVars>>

ReanimatePrev ==
    /\ pc = "reanimate"
    /\ \E ok \in BOOLEAN :
          IF ok THEN pc' = "observe" /\ UNCHANGED thrown
          ELSE Throw("Error", "finally")
    /\ UNCHANGED <<passNo, res, actTask, dataDir, releases, mgrLive, passDom, passObs, passDeps, cmtLog, outcome>>
    /\ UNCHANGED <<outsideDeploy, commitVars>>

Observe ==
    /\ pc = "observe"
    /\ \E ok \in BOOLEAN :
          IF ok THEN pc' = "getDataDir" /\ UNCHANGED thrown
          ELSE Throw("Error", "finally")
    /\ UNCHANGED <<passNo, res, actTask, dataDir, releases, mgrLive, passDom, passObs, passDeps, cmtLog, outcome>>
    /\ UNCHANGED <<outsideDeploy, commitVars>>

GetDataDir ==
    /\ pc = "getDataDir"
    /\ \E ok \in BOOLEAN :
          IF ok THEN pc' = "pass_build" /\ dataDir' = "held" /\ UNCHANGED thrown
          ELSE Throw("Error", "act_failed") /\ UNCHANGED dataDir
    /\ UNCHANGED <<passNo, res, actTask, releases, mgrLive, passDom, passObs, passDeps, cmtLog, outcome>>
    /\ UNCHANGED <<outsideDeploy, commitVars>>

\* a rebuild inside deployPass's try block: its failure is committed as failed
PassBuild_insideTry ==
    /\ pc = "pass_build"
    /\ passNo' = passNo + 1
    /\ res' = NoRes
    /\ \E ok \in BOOLEAN, d \in Data :
          IF ok THEN pc' = "mgr_start" /\ passDom' = d /\ UNCHANGED thrown
          ELSE Throw("ProjectBuildError", "pass_catch") /\ UNCHANGED passDom
    /\ passObs' = 0
    /\ passDeps' = 0
    /\ UNCHANGED <<actTask, dataDir, releases, mgrLive, cmtLog, outcome>>
    /\ UNCHANGED <<outsideDeploy, commitVars>>

\* deployPass: rebuild
PassBuild ==
    /\ pc = "pass_build"
    /\ passNo' = passNo + 1
    /\ res' = NoRes
    /\ \E ok \in BOOLEAN, d \in Data :
          IF ok THEN pc' = "mgr_start" /\ passDom' = d /\ UNCHANGED thrown
          ELSE Throw("ProjectBuildError", "act_failed") /\ UNCHANGED passDom
    /\ passObs' = 0
    /\ passDeps' = 0
    /\ UNCHANGED <<actTask, dataDir, releases, mgrLive, cmtLog, outcome>>
    /\ UNCHANGED <<outsideDeploy, commitVars>>

MgrStart ==
    /\ pc = "mgr_start"
    /\ \E ok \in BOOLEAN :
          IF ok THEN pc' = "mgr_observe" /\ mgrLive' = TRUE /\ UNCHANGED thrown
          ELSE Throw("Error", "act_failed") /\ UNCHANGED mgrLive
    /\ UNCHANGED <<passNo, res, actTask, dataDir, releases, passDom, passObs, passDeps, cmtLog, outcome>>
    /\ UNCHANGED <<outsideDeploy, commitVars>>

MgrObserve ==
    /\ pc = "mgr_observe"
    /\ \E ok \in BOOLEAN, o \in Data :
          IF ok THEN pc' = "mgr_analyze" /\ passObs' = o /\ UNCHANGED thrown
          ELSE Throw("Error", "act_failed") /\ UNCHANGED passObs
    /\ UNCHANGED <<passNo, res, actTask, dataDir, releases, mgrLive, passDom, passDeps, cmtLog, outcome>>
    /\ UNCHANGED <<outsideDeploy, commitVars>>

MgrAnalyze ==
    /\ pc = "mgr_analyze"
    /\ \E ok \in BOOLEAN, g \in Data :
          IF ok THEN pc' = "commit_preAct" /\ passDeps' = g /\ UNCHANGED thrown
          ELSE Throw("Error", "act_failed") /\ UNCHANGED passDeps
    /\ UNCHANGED <<passNo, res, actTask, dataDir, releases, mgrLive, passDom, passObs, cmtLog, outcome>>
    /\ UNCHANGED <<outsideDeploy, commitVars>>

CommitPreAct ==
    /\ pc = "commit_preAct"
    /\ DoCommit("preAct")
    /\ IF cmtRet' = "ok" THEN pc' = "act" /\ UNCHANGED thrown
       ELSE Throw("InternalError", "act_failed")
    /\ UNCHANGED <<passNo, res, actTask, dataDir, releases, mgrLive, passDom, passObs, passDeps, outcome>>
    /\ UNCHANGED outsideDeploy

\* mgr.act: resolves to {deployComplete, stateChanged} or rejects
Act ==
    /\ pc = "act"
    /\ actTask' = IF actTask = "Created" THEN "Started" ELSE actTask
    /\ \/ \E dc \in BOOLEAN, sc \in BOOLEAN :
            /\ res' = [deployComplete |-> dc, stateChanged |-> sc, valid |-> FALSE]
            /\ pc' = "mgr_finish"
            /\ UNCHANGED thrown
       \/ Throw("ActError", "pass_catch") /\ UNCHANGED res
    /\ UNCHANGED <<passNo, dataDir, releases, mgrLive, passDom, passObs, passDeps, cmtLog, outcome>>
    /\ UNCHANGED <<outsideDeploy, commitVars>>

\* mgr.finish after act, then deployPass returns; mgrLive holds from the
\* return of mgr.start until mgr.finish is invoked
MgrFinish ==
    /\ pc = "mgr_finish"
    /\ \E ok \in BOOLEAN :
          IF ok THEN /\ pc' = "loop_check"
                     /\ mgrLive' = FALSE
                     /\ res' = [res EXCEPT !.valid = TRUE]
                     /\ UNCHANGED thrown
          ELSE Throw("FinishError", "pass_catch") /\ mgrLive' = FALSE /\ UNCHANGED res
    /\ UNCHANGED <<passNo, actTask, dataDir, releases, passDom, passObs, passDeps, cmtLog, outcome>>
    /\ UNCHANGED <<outsideDeploy, commitVars>>

\* a catch that rethrows without committing
PassCatch_noCommit ==
    /\ pc = "pass_catch"
    /\ pc' = "act_failed"
    /\ UNCHANGED <<passNo, res, thrown, actTask, dataDir, releases, mgrLive, passDom, passObs, passDeps, cmtLog, outcome>>
    /\ UNCHANGED <<outsideDeploy, commitVars>>

\* deployPass catch: commit failed, rethrow
PassCatch ==
    /\ pc = "pass_catch"
    /\ DoCommit("failed")
    /\ pc' = "act_failed"
    /\ thrown' = IF cmtRet' = "ok" THEN thrown ELSE "InternalError"
    /\ UNCHANGED <<passNo, res, actTask, dataDir, releases, mgrLive, passDom, passObs, passDeps, outcome>>
    /\ UNCHANGED outsideDeploy

\* loop body that declares completion whenever the pass was complete
loopBranch_ignoresStateChanged(r) ==
    IF ~r.deployComplete /\ ~r.stateChanged THEN "throw"
    ELSE IF r.deployComplete THEN "success"
    ELSE "again"

\* loop body that retries a pass that was neither complete nor changed
loopBranch_retriesNeither(r) ==
    IF r.deployComplete /\ ~r.stateChanged THEN "success"
    ELSE "again"

\* loop body that gives up as soon as a pass leaves the goal incomplete
loopBranch_givesUpIncomplete(r) ==
    IF ~r.deployComplete THEN "throw"
    ELSE IF ~r.stateChanged THEN "success"
    ELSE "again"

\* what the loop body does with the result of a pass
loopBranch(r) ==
    IF ~r.deployComplete /\ ~r.stateChanged THEN "throw"
    ELSE IF r.deployComplete /\ ~r.stateChanged THEN "success"
    ELSE "again"

\* a loop that records the failure in the store before it gives up
LoopNeither_commitsFailed ==
    /\ pc = "loop_check"
    /\ loopBranch(res) = "throw"
    /\ DoCommit("failed")
    /\ Throw("RetryNotImplemented", "act_failed")
    /\ UNCHANGED <<passNo, res, actTask, dataDir, releases, mgrLive, passDom, passObs, passDeps, outcome>>
    /\ UNCHANGED outsideDeploy

LoopNeither ==
    /\ pc = "loop_check"
    /\ loopBranch(res) = "throw"
    /\ Throw("RetryNotImplemented", "act_failed")
    /\ UNCHANGED <<passNo, res, actTask, dataDir, releases, mgrLive, passDom, passObs, passDeps, cmtLog, outcome>>
    /\ UNCHANGED <<outsideDeploy, commitVars>>

LoopComplete ==
    /\ pc = "loop_check"
    /\ loopBranch(res) = "success"
    /\ DoCommit("success")
    /\ IF cmtRet' = "ok"
       THEN actTask' = "Complete" /\ pc' = "finally" /\ UNCHANGED thrown
       ELSE Throw("InternalError", "act_failed") /\ UNCHANGED actTask
    /\ UNCHANGED <<passNo, res, dataDir, releases, mgrLive, passDom, passObs, passDeps, outcome>>
    /\ UNCHANGED outsideDeploy

LoopAgain ==
    /\ pc = "loop_check"
    /\ loopBranch(res) = "again"
    /\ passNo < MaxPasses
    /\ pc' = "pass_build"
    /\ UNCHANGED <<passNo, res, thrown, actTask, dataDir, releases, mgrLive, passDom, passObs, passDeps, cmtLog, outcome>>
    /\ UNCHANGED <<outsideDeploy, commitVars>>

\* catch around the pass loop: the act task fails, the error is rethrown
ActFailed ==
    /\ pc = "act_failed"
    /\ actTask' = "Failed"
    /\ pc' = "finally"
    /\ UNCHANGED <<passNo, res, thrown, dataDir, releases, mgrLive, passDom, passObs, passDeps, cmtLog, outcome>>
    /\ UNCHANGED <<outsideDeploy, commitVars>>

\* releaseDataDir at the end of the try block instead of in a finally
Finally_releasesOnSuccessOnly ==
    /\ pc = "finally"
    /\ releases' = IF thrown = "none" THEN releases + 1 ELSE releases
    /\ dataDir' = IF dataDir = "held" /\ thrown = "none" THEN "released" ELSE dataDir
    /\ outcome' = IF thrown = "none" THEN "success" ELSE "error"
    /\ pc' = "done"
    /\ UNCHANGED <<passNo, res, thrown, actTask, mgrLive, passDom, passObs, passDeps, cmtLog>>
    /\ UNCHANGED <<outsideDeploy, commitVars>>

\* finally: releaseDataDir, then the success response or the rethrown error
Finally ==
    /\ pc = "finally"
    /\ releases' = releases + 1
    /\ dataDir' = IF dataDir = "held" THEN "released" ELSE dataDir
    /\ outcome' = IF thrown = "none" THEN "success" ELSE "error"
    /\ pc' = "done"
    /\ UNCHANGED <<passNo, res, thrown, actTask, mgrLive, passDom, passObs, passDeps, cmtLog>>
    /\ UNCHANGED <<outsideDeploy, commitVars>>

NextDeploy ==
    \/ CurrentState
    \/ Build1
    \/ ReanimatePrev
    \/ Observe
    \/ GetDataDir
    \/ PassBuild
    \/ MgrStart
    \/ MgrObserve
    \/ MgrAnalyze
    \/ CommitPreAct
    \/ Act
    \/ MgrFinish
    \/ PassCatch
    \/ LoopNeither
    \/ LoopComplete
    \/ LoopAgain
    \/ ActFailed
    \/ Finally

SpecDeploy == InitDeploy /\ [][NextDeploy]_vars

\* ------------------------------------------------------------------------
\* Properties of buildAndDeploy
\* ------------------------------------------------------------------------
SuccessCommitted == \E i \in 1..Len(cmtLog) : cmtLog[i].status = "success"

\* C9: a success entry is committed, the act task marked complete and
\* 'success' returned only after a pass that returned deployComplete = true
\* and stateChanged = false; after a pass that returned stateChanged = true
\* nothing is committed and the task is not completed, a rebuild pass comes
\* next; at most one success commit is made, and it is the last commit.
C9_SuccessOnlyAfterCompleteUnchangedPass ==
    /\ []((SuccessCommitted \/ actTask = "Complete" \/ outcome = "success") =>
            (res.valid /\ res.deployComplete /\ ~res.stateChanged))
    /\ [](\A i \in 1..Len(cmtLog) : cmtLog[i].status = "success" => i = Len(cmtLog))
    /\ [][ (pc = "loop_check" /\ res.stateChanged) =>
              (pc' = "pass_build" /\ cmtLog' = cmtLog /\ actTask' = actTask
               /\ outcome' = outcome) ]_vars

C9_Witness ==
    /\ outcome = "success"
    /\ actTask = "Complete"
    /\ passNo >= 2
    /\ ~optDryRun
    /\ Len(history) > 0
    /\ history[Len(history)].status = "success"
    /\ Len(cmtLog) > 0
    /\ cmtLog[Len(cmtLog)] = [status |-> "success", ret |-> "ok"]

\* C10: after a pass that returned neither deployComplete nor stateChanged,
\* buildAndDeploy throws: no further pass is started, the act task ends
\* failed, the call ends in an error and no success entry is committed.
C10_NeitherIsHardFailure ==
    /\ [][ (res.valid /\ ~res.deployComplete /\ ~res.stateChanged) =>
              (passNo' = passNo /\ pc' # "pass_build" /\ thrown' # "none") ]_vars
    /\ []((pc = "done" /\ res.valid /\ ~res.deployComplete /\ ~res.stateChanged) =>
            (outcome = "error" /\ actTask = "Failed" /\ ~SuccessCommitted))

C10_Witness ==
    /\ pc = "done"
    /\ res.valid /\ ~res.deployComplete /\ ~res.stateChanged
    /\ outcome = "error"
    /\ thrown = "RetryNotImplemented"
    /\ actTask = "Failed"
    /\ passNo >= 2

\* control points of deployPass and of the loop around it
InPass ==
    pc \in {"pass_build", "mgr_start", "mgr_observe", "mgr_analyze",
            "commit_preAct", "act", "mgr_finish", "pass_catch", "loop_check"}

\* the step that follows each step of a pass when it does not throw
PassOrder(at) ==
    CASE at = "pass_build" -> "mgr_start"
      [] at = "mgr_start" -> "mgr_observe"
      [] at = "mgr_observe" -> "mgr_analyze"
      [] at = "mgr_analyze" -> "commit_preAct"
      [] at = "commit_preAct" -> "act"
      [] at = "act" -> "mgr_finish"
      [] at = "mgr_finish" -> "loop_check"

LastCommitted == cmtLog[Len(cmtLog)]

\* C11: after a pass that reported stateChanged with the goal incomplete the
\* loop starts another pass, and a pass is rebuild, start, observe, analyze,
\* preAct commit, act, finish in that order unless a step throws; the loop is
\* left only with a success commit or a thrown error, so buildAndDeploy ends
\* after a pass only if a pass reported stateChanged = false or threw.
C11_LoopRepeatsWhileStateChanged ==
    /\ [][ (pc = "loop_check" /\ res.stateChanged /\ ~res.deployComplete) =>
              (pc' = "pass_build" /\ thrown' = "none" /\ cmtLog' = cmtLog) ]_vars
    /\ [][ (pc = "pass_build" /\ passNo > 0) => passNo' = passNo + 1 ]_vars
    /\ [][ (InPass /\ pc \notin {"pass_catch", "loop_check"}) =>
              \/ pc' = PassOrder(pc) /\ thrown' = "none"
              \/ pc' \in {"pass_catch", "act_failed"} /\ thrown' # "none" ]_vars
    /\ [][ (InPass /\ ~InPass') =>
              \/ thrown' # "none"
              \/ Len(cmtLog') > 0 /\ LastCommitted' = [status |-> "success", ret |-> "ok"] ]_vars
    /\ []((pc = "done" /\ passNo > 0) =>
              (thrown # "none" \/ (res.valid /\ ~res.stateChanged)))

C11_Witness ==
    /\ pc = "pass_build"
    /\ passNo = MaxPasses - 1
    /\ res.valid /\ res.stateChanged /\ ~res.deployComplete
    /\ thrown = "none"
    /\ Len(cmtLog) = passNo

\* C12: outside dry-run, when act or the finish after it throws, the catch of
\* deployPass appends one failed entry with that pass's domXml, observations
\* and dependencies and rethrows the same error; nothing is written between
\* the throw and that commit; the operation then ends in that error with a
\* history whose last entry is the failed one and follows a preAct entry,
\* and it has committed failed exactly once.
C12_ActFailureCommitsFailed ==
    /\ [][ (pc \in {"act", "mgr_finish"} /\ thrown' # "none") =>
              (pc' = "pass_catch" /\ history' = history /\ cmtLog' = cmtLog) ]_vars
    /\ [][ (pc = "pass_catch" /\ ~optDryRun) =>
              /\ history' = Append(history, CommitData("failed", passDom, passObs, passDeps))
              /\ cmtRet' = "ok"
              /\ thrown' = thrown
              /\ thrown \in {"ActError", "FinishError"}
              /\ pc' = "act_failed" ]_vars
    /\ []((pc \in {"act_failed", "finally", "done"} /\ ~optDryRun
           /\ thrown \in {"ActError", "FinishError"}) =>
              /\ Len(history) >= 2
              /\ history[Len(history)].status = "failed"
              /\ history[Len(history) - 1].status = "preAct"
              /\ Cardinality({i \in 1..Len(cmtLog) : cmtLog[i].status = "failed"}) = 1
              /\ LastCommitted = [status |-> "failed", ret |-> "ok"])
    /\ []((pc = "done" /\ thrown \in {"ActError", "FinishError"}) => outcome = "error")

C12_Witness ==
    /\ pc = "done"
    /\ outcome = "error"
    /\ thrown = "ActError"
    /\ ~optDryRun
    /\ passNo >= 2
    /\ Len(history) >= 2
    /\ history[Len(history)] = CommitData("failed", passDom, passObs, passDeps)
    /\ history[Len(history) - 1].status = "preAct"
    /\ history[Len(history) - 1].domXml # passDom

\* C13 as stated: outside dry-run, whenever a pass is about to act, the
\* latest stored entry is a preAct entry carrying that pass's domXml,
\* observations and dependencies.
C13_EveryPassPersistsItsPreAct ==
    (pc = "act" /\ ~optDryRun) =>
        /\ Len(history) > 0
        /\ history[Len(history)] = CommitData("preAct", passDom, passObs, passDeps)

\* C13 amended: outside dry-run the first pass appends a preAct entry with
\* its domXml, observations and dependencies before it acts; the preAct
\* commit of every later pass returns without writing; so before each act
\* the latest stored entry is a preAct entry, and in the first pass it
\* carries the data of the tree about to be acted on.
C13_OnlyFirstPassPersistsPreAct ==
    /\ [][ (pc = "commit_preAct" /\ ~optDryRun) =>
              /\ cmtRet' = "ok" /\ pc' = "act"
              /\ passNo = 1 =>
                    history' = Append(history, CommitData("preAct", passDom, passObs, passDeps))
              /\ passNo > 1 => history' = history ]_vars
    /\ []((pc = "act" /\ ~optDryRun) =>
              /\ Len(history) > 0
              /\ history[Len(history)].status = "preAct"
              /\ passNo = 1 =>
                    history[Len(history)] = CommitData("preAct", passDom, passObs, passDeps))

C13_Witness ==
    /\ pc = "act"
    /\ ~optDryRun
    /\ passNo >= 2
    /\ Len(history) > 0
    /\ history[Len(history)].status = "preAct"
    /\ history[Len(history)].domXml # passDom
    /\ cmtLog[Len(cmtLog)] = [status |-> "preAct", ret |-> "ok"]

\* C14 as stated: once mgr.start has returned in a pass, mgr.finish is
\* invoked before buildAndDeploy ends, whichever step of the pass throws.
C14_FinishOnEveryExit ==
    pc \in {"act_failed", "finally", "done"} => ~mgrLive

\* C15: releaseDataDir is called only by the finally block, at most once,
\* and never while a pass is running; an operation that obtained the data
\* directory ends with exactly one release, however it ends.
C15_DataDirReleasedOnceAtEnd ==
    /\ [][ releases' # releases =>
              (pc = "finally" /\ pc' = "done" /\ releases' = releases + 1) ]_vars
    /\ [](InPass => (releases = 0 /\ dataDir = "held"))
    /\ [](dataDir = "held" => releases = 0)
    /\ []((pc = "done" /\ dataDir # "none") => (releases = 1 /\ dataDir = "released"))

C15_Witness ==
    /\ pc = "done"
    /\ dataDir = "released"
    /\ releases = 1
    /\ thrown = "ProjectBuildError"
    /\ passNo >= 2
    /\ outcome = "error"

\* C39: when buildAndDeploy fails because a pass returned neither complete
\* nor state-changed, no failed entry is committed: the last commit made is
\* the preAct commit, the latch stays at preAct, and outside dry-run the
\* last entry of the deployment's history is a preAct entry
C39_NeitherCommitsNoFailedEntry ==
    thrown = "RetryNotImplemented" =>
       /\ \A i \in 1..Len(cmtLog) : cmtLog[i].status = "preAct"
       /\ cmtLog # <<>>
       /\ lastCommit = "preAct"
       /\ ~optDryRun =>
             /\ history # <<>>
             /\ history[Len(history)].status = "preAct"
       /\ optDryRun => history \in PriorHistory

C39_Witness ==
    /\ pc = "done"
    /\ outcome = "error"
    /\ thrown = "RetryNotImplemented"
    /\ ~optDryRun
    /\ actTask = "Failed"
    /\ Len(history) = 3
    /\ history[3].status = "preAct"
    /\ lastCommit = "preAct"

\* C30: a build that ends in a build error or a partial build throws
\* ProjectBuildError out of the build step itself; in that step and in every
\* step after it no plugin manager is started, no action is executed and
\* nothing is committed, so a failure of the first build leaves the history
\* as it was found and the act task never started.
C30_BuildErrorBeforeAnySideEffect ==
    /\ [][ (thrown = "none" /\ thrown' = "ProjectBuildError") =>
              /\ pc \in {"build1", "pass_build"}
              /\ pc' \in {"finally", "act_failed"}
              /\ ~mgrLive /\ ~mgrLive'
              /\ actTask' = actTask
              /\ cmtLog' = cmtLog
              /\ UNCHANGED commitVars ]_vars
    /\ [][ thrown = "ProjectBuildError" =>
              /\ thrown' = "ProjectBuildError"
              /\ pc' \in {"act_failed", "finally", "done"}
              /\ ~mgrLive'
              /\ actTask' \in {actTask, "Failed"}
              /\ cmtLog' = cmtLog
              /\ UNCHANGED commitVars ]_vars
    /\ []((thrown = "ProjectBuildError" /\ passNo <= 1) =>
              /\ cmtLog = <<>>
              /\ history \in PriorHistory
              /\ lastCommit = "none"
              /\ actTask \in {"Created", "Failed"})

C30_Witness ==
    /\ pc = "done"
    /\ thrown = "ProjectBuildError"
    /\ outcome = "error"
    /\ passNo = 1
    /\ ~mgrLive
    /\ actTask = "Failed"
    /\ cmtLog = <<>>
    /\ lastCommit = "none"
    /\ history = <<>>

\* ------------------------------------------------------------------------
\* Plugin manager: start, observe, analyze, act, finish
\* ------------------------------------------------------------------------
trackerFields ==
    <<dryRun, goalStatus, statMap, nodeStatus, primStatus, nonPrimStatus,
      taskMap, stepID, stepCount, stepStatus, elementStatus, pendingWrites>>

MgrOps == {"start", "observe", "analyze", "act", "finish"}

\* the state an operation attempts to enter
attempted(op) ==
    CASE op = "start" -> "Starting"
      [] op = "observe" -> "Observing"
      [] op = "analyze" -> "Analyzing"
      [] op = "act" -> "Acting"
      [] op = "finish" -> "Finishing"

\* a manager that lets act run as soon as observe has been called
legalStateTransition_actAfterObserve(prev, op) ==
    CASE op = "start" -> prev = "PreStart"
      [] op = "observe" -> prev = "PreObserve"
      [] op = "analyze" -> prev = "PreAnalyze"
      [] op = "act" -> prev \in {"PreAnalyze", "PreAct"}
      [] op = "finish" -> prev \in {"PreAnalyze", "PreAct", "PreFinish", "Finished"}

\* a manager whose finish can be called once only
legalStateTransition_finishOnce(prev, op) ==
    CASE op = "start" -> prev = "PreStart"
      [] op = "observe" -> prev = "PreObserve"
      [] op = "analyze" -> prev = "PreAnalyze"
      [] op = "act" -> prev = "PreAct"
      [] op = "finish" -> prev \in {"PreAnalyze", "PreAct", "PreFinish"}

\* a manager that accepts finish as soon as it has been started
legalStateTransition_finishAfterStart(prev, op) ==
    CASE op = "start" -> prev = "PreStart"
      [] op = "observe" -> prev = "PreObserve"
      [] op = "analyze" -> prev = "PreAnalyze"
      [] op = "act" -> prev = "PreAct"
      [] op = "finish" -> prev # "PreStart"

legalStateTransition(prev, op) ==
    CASE op = "start" -> prev = "PreStart"
      [] op = "observe" -> prev = "PreObserve"
      [] op = "analyze" -> prev = "PreAnalyze"
      [] op = "act" -> prev = "PreAct"
      [] op = "finish" -> prev \in {"PreAnalyze", "PreAct", "PreFinish", "Finished"}

\* outcome of a manager call: resolved, still pending, or the error thrown
Outcome(kind) == [kind |-> kind, from |-> "", to |-> ""]

IllegalSequence(from, op) ==
    [kind |-> "IllegalSequence", from |-> from, to |-> attempted(op)]

\* act refuses a task observer that has already completed
TaskObserverStates == {"Started", "Complete"}

IsRejected(ret) == ret.kind \in {"IllegalSequence", "NewTaskObserverRequired"}

\* dependency graphs analyze may produce: g[n] is the set of predecessors of n
Graphs == {g \in [PlanNodes -> SUBSET PlanNodes] : \A n \in PlanNodes : \A p \in g[n] : p < n}

Perms(S) ==
    {f \in [1..Cardinality(S) -> S] : \A i, j \in 1..Cardinality(S) : f[i] = f[j] => i = j}

RECURSIVE setAll(_, _, _)
setAll(t, S, statExt) ==
    IF S = {} THEN t
    ELSE LET n == CHOOSE x \in S : TRUE
         IN setAll(set(t, n, statExt, FALSE).t, S \ {n}, statExt)

\* actions started although a predecessor has not settled
ready_ignoresDependencies(t, ex, g) ==
    {n \in PlanNodes : ex[n] = "none" /\ t.statMap[n] = "Waiting"}

\* an artificial cap of one executor: nothing is started while an action
\* runs, and then only the first of the actions that could start
ready_serial(t, ex, g) ==
    LET r == {n \in PlanNodes :
                /\ ex[n] = "none"
                /\ t.statMap[n] = "Waiting"
                /\ \A p \in g[n] : isFinal(t, p) /\ t.statMap[p] # "Failed"}
    IN IF r = {} \/ (\E n \in PlanNodes : ex[n] = "running")
       THEN {}
       ELSE {CHOOSE n \in r : \A m \in r : n <= m}

\* actions not started yet whose predecessors have all been deployed
ready(t, ex, g) ==
    {n \in PlanNodes :
        /\ ex[n] = "none"
        /\ t.statMap[n] = "Waiting"
        /\ \A p \in g[n] : isFinal(t, p) /\ t.statMap[p] # "Failed"}

\* a call that the current state does not allow: it throws, nothing changes
Reject(op) ==
    /\ mgrRet' = IllegalSequence(mgrState, op)
    /\ UNCHANGED <<mgrState, deps, executed, startOrder, actResult>>
    /\ UNCHANGED trackerFields

\* a call is made when no call is pending; it records whether the call
\* before it was rejected and whether that call was finish
Called(op) ==
    /\ mgrRet.kind # "pending"
    /\ mgrCall' = [op |-> op, afterReject |-> IsRejected(mgrRet),
                   afterFinish |-> mgrCall.op = "finish"]

\* the phase a dry run of act ends in, although the plan was not executed
actNextState_dryRunKeepsPlan(dry) == IF dry THEN "PreAct" ELSE "Acting"

\* the phase act moves to: a dry run ends back before analyze
actNextState(dry) == IF dry THEN "PreAnalyze" ELSE "Acting"

\* whether the act before this one, if any, was a dry run
afterDryRun == actResult.valid /\ actResult.dryRun

PMStart ==
    /\ Called("start")
    /\ IF legalStateTransition(mgrState, "start")
       THEN /\ mgrState' = "PreObserve"
            /\ mgrRet' = Outcome("ok")
            /\ UNCHANGED <<deps, executed, startOrder, actResult>>
            /\ UNCHANGED trackerFields
       ELSE Reject("start")
    /\ UNCHANGED outsideMgr

PMObserve ==
    /\ Called("observe")
    /\ IF legalStateTransition(mgrState, "observe")
       THEN /\ mgrState' = "PreAnalyze"
            /\ mgrRet' = Outcome("ok")
            /\ UNCHANGED <<deps, executed, startOrder, actResult>>
            /\ UNCHANGED trackerFields
       ELSE Reject("observe")
    /\ UNCHANGED outsideMgr

PMAnalyze ==
    /\ Called("analyze")
    /\ IF legalStateTransition(mgrState, "analyze")
       THEN /\ mgrState' = "PreAct"
            /\ mgrRet' = Outcome("ok")
            /\ deps' \in Graphs
            /\ executed' = [n \in PlanNodes |-> "none"]
            /\ startOrder' = <<>>
            /\ UNCHANGED actResult
            /\ UNCHANGED trackerFields
       ELSE Reject("analyze")
    /\ UNCHANGED outsideMgr

\* act: a completed task observer is refused before anything else; a dry
\* run marks every node skipped and resolves; otherwise every action
\* without predecessors is started and act stays pending
PMAct ==
    /\ mgrRet.kind # "pending"
    /\ \E taskObserver \in TaskObserverStates :
       /\ mgrCall' = [op |-> "act", afterReject |-> IsRejected(mgrRet),
                      afterFinish |-> mgrCall.op = "finish",
                      taskObserver |-> taskObserver]
       /\ IF taskObserver = "Complete"
          THEN /\ mgrRet' = Outcome("NewTaskObserverRequired")
               /\ UNCHANGED <<mgrState, deps, executed, startOrder, actResult>>
               /\ UNCHANGED trackerFields
          ELSE IF legalStateTransition(mgrState, "act")
          THEN \E dry \in BOOLEAN :
               \E t0 \in {createStatusTracker(dry, "Deployed", stepCount, PlanNodes)} :
                 IF dry
                 THEN \E r \in {complete(setAll(t0, PlanNodes, "Deployed"), FALSE)} :
                      /\ Install(r.t)
                      /\ actResult' = [valid |-> TRUE, dryRun |-> TRUE,
                                       deployComplete |-> r.ret = r.t.goalStatus,
                                       stateChanged |-> FALSE,
                                       afterDryRun |-> afterDryRun]
                      /\ mgrState' = actNextState(TRUE)
                      /\ mgrRet' = Outcome("ok")
                      /\ UNCHANGED <<deps, executed, startOrder>>
                 ELSE \E rdy \in {ready(t0, executed, deps)} :
                      /\ Install(setAll(t0, rdy, "Deploying"))
                      /\ executed' = [n \in PlanNodes |->
                                        IF n \in rdy THEN "running" ELSE executed[n]]
                      /\ startOrder' \in Perms(rdy)
                      /\ actResult' = [valid |-> FALSE, afterDryRun |-> afterDryRun]
                      /\ mgrState' = actNextState(FALSE)
                      /\ mgrRet' = Outcome("pending")
                      /\ UNCHANGED deps
          ELSE Reject("act")
    /\ UNCHANGED outsideMgr

\* an executor resolves or rejects: its node becomes Deployed or Failed and
\* the actions this unblocks are started
PMExecutorSettles ==
    /\ mgrState = "Acting"
    /\ \E n \in PlanNodes, ok \in BOOLEAN :
          /\ executed[n] = "running"
          /\ \E t1 \in {set(This, n, IF ok THEN "Deployed" ELSE "Failed", ~ok).t} :
             \E ex1 \in {[executed EXCEPT ![n] = IF ok THEN "ok" ELSE "failed"]} :
             \E rdy \in {ready(t1, ex1, deps)} :
               /\ Install(setAll(t1, rdy, "Deploying"))
               /\ executed' = [m \in PlanNodes |-> IF m \in rdy THEN "running" ELSE ex1[m]]
               /\ \E order \in Perms(rdy) : startOrder' = startOrder \o order
    /\ UNCHANGED <<mgrState, mgrCall, mgrRet, deps, actResult>>
    /\ UNCHANGED outsideMgr

\* no executor is running any more: act resolves with the tracker's verdict
PMActReturns ==
    /\ mgrState = "Acting"
    /\ \A n \in PlanNodes : executed[n] # "running"
    /\ \E stateChanged \in BOOLEAN :
       \E r \in {complete(This, stateChanged)} :
          /\ Install(r.t)
          /\ actResult' = [valid |-> TRUE, dryRun |-> FALSE,
                           deployComplete |-> r.ret = r.t.goalStatus,
                           stateChanged |-> stateChanged,
                           afterDryRun |-> actResult.afterDryRun]
    /\ mgrState' = "PreFinish"
    /\ mgrRet' = Outcome("ok")
    /\ UNCHANGED <<mgrCall, deps, executed, startOrder>>
    /\ UNCHANGED outsideMgr

PMFinish ==
    /\ Called("finish")
    /\ IF legalStateTransition(mgrState, "finish")
       THEN /\ mgrState' = "Finished"
            /\ mgrRet' = Outcome("ok")
            /\ UNCHANGED <<deps, executed, startOrder, actResult>>
            /\ UNCHANGED trackerFields
       ELSE Reject("finish")
    /\ UNCHANGED outsideMgr

InitMgr ==
    /\ IdleOps
    /\ IdleRegistry
    /\ IdleStyle
    /\ IdleCommit
    /\ IdleDeploy
    /\ IdleMgr
    /\ \E t \in {StatusTrackerImpl(FALSE, "Deployed", 0, PlanNodes)} :
          /\ dryRun = t.dryRun
          /\ goalStatus = t.goalStatus
          /\ statMap = t.statMap
          /\ nodeStatus = t.nodeStatus
          /\ primStatus = t.primStatus
          /\ nonPrimStatus = t.nonPrimStatus
          /\ taskMap = t.taskMap
          /\ stepID = t.stepID
          /\ stepCount = t.stepCount
          /\ stepStatus = t.stepStatus
          /\ elementStatus = t.elementStatus
    /\ trkCall = NoCall
    /\ trkRet = "none"
    /\ pendingWrites = {}

NextMgr ==
    \/ PMStart
    \/ PMObserve
    \/ PMAnalyze
    \/ PMAct
    \/ PMExecutorSettles
    \/ PMActReturns
    \/ PMFinish

SpecMgr == InitMgr /\ [][NextMgr]_vars

\* ------------------------------------------------------------------------
\* Properties of the plugin manager
\* ------------------------------------------------------------------------
Started(n) == executed[n] # "none"

Settled(n) == executed[n] \in {"ok", "failed"}

RECURSIVE Ancestors(_, _)
Ancestors(g, n) == g[n] \cup UNION {Ancestors(g, p) : p \in g[n]}

Chain == [n \in PlanNodes |-> IF n = 1 THEN {} ELSE {n - 1}]

\* C1: an action is started only when every declared predecessor has
\* settled; while act runs no action whose predecessors have all completed
\* is left unstarted; an action with predecessors is started in the step in
\* which one of them completes; for the chain 1 -> 2 -> ... the executors
\* start in the order 1, 2, ...
C1_DependencyOrdering ==
    /\ [](\A n \in PlanNodes : Started(n) =>
            \A p \in deps[n] : Settled(p) /\ statMap[p] \in FinalStatuses)
    /\ [](mgrState = "Acting" =>
            \A n \in PlanNodes :
               (\A p \in deps[n] : executed[p] = "ok") => Started(n))
    /\ [][ \A n \in PlanNodes :
              (executed[n] = "none" /\ executed'[n] = "running" /\ deps[n] # {}) =>
                 \E p \in deps[n] : executed[p] = "running" /\ executed'[p] = "ok" ]_vars
    /\ [](deps = Chain =>
            /\ Len(startOrder) <= NumActions
            /\ \A i \in 1..Len(startOrder) : startOrder[i] = i)

C1_Witness ==
    /\ deps = Chain
    /\ Len(startOrder) = NumActions
    /\ \A i \in 1..Len(startOrder) : startOrder[i] = i
    /\ \A n \in PlanNodes : executed[n] = "ok" /\ statMap[n] = "Deployed"
    /\ mgrState = "PreFinish"

\* C2: an action whose executor failed leaves its node Failed; an action
\* that depends, directly or transitively, on a failed action is never
\* started; when act returns every action with no failed ancestor has run
\* to completion, and act reports the deployment as not complete.
C2_FailureBlocksOnlyDependents ==
    /\ [](\A n \in PlanNodes : executed[n] = "failed" => statMap[n] = "Failed")
    /\ [](\A n \in PlanNodes :
            (\E p \in Ancestors(deps, n) : executed[p] = "failed") => ~Started(n))
    /\ []((mgrState \in {"PreFinish", "Finished"} /\ actResult.valid /\ ~actResult.dryRun) =>
            /\ \A n \in PlanNodes :
                  (\A p \in Ancestors(deps, n) : executed[p] # "failed") => Settled(n)
            /\ (\E n \in PlanNodes : executed[n] = "failed") => ~actResult.deployComplete)

C2_Witness ==
    /\ mgrState = "PreFinish"
    /\ actResult.valid /\ ~actResult.dryRun /\ ~actResult.deployComplete
    /\ \E f, i, d \in PlanNodes :
          /\ executed[f] = "failed" /\ statMap[f] = "Failed"
          /\ f \notin Ancestors(deps, i) /\ executed[i] = "ok" /\ statMap[i] = "Deployed"
          /\ f \in deps[d] /\ executed[d] = "none" /\ statMap[d] = "Waiting"

\* the state each operation is accepted in
InOrderState(op) ==
    CASE op = "start" -> "PreStart"
      [] op = "observe" -> "PreObserve"
      [] op = "analyze" -> "PreAnalyze"
      [] op = "act" -> "PreAct"

\* C6: start, observe, analyze and act are accepted only in that order;
\* analyze directly after start throws the error naming the transition
\* PreObserve to Analyzing; act before observe, or after observe without
\* analyze, is rejected; a rejected call changes nothing, so that the next
\* call made in order still succeeds.
C6_CallsOnlyInOrder ==
    [][ mgrRet.kind # "pending" =>
          LET op == mgrCall'.op
              accepted == mgrRet'.kind \in {"ok", "pending"}
          IN /\ op \in {"start", "observe", "analyze"} =>
                   (accepted <=> mgrState = InOrderState(op))
             /\ (op = "act" /\ mgrCall'.taskObserver = "Started") =>
                   (accepted <=> mgrState = InOrderState(op))
             /\ (op = "analyze" /\ mgrState = "PreObserve") =>
                   mgrRet' = [kind |-> "IllegalSequence",
                              from |-> "PreObserve", to |-> "Analyzing"]
             /\ (op = "act" /\ mgrState \in {"PreObserve", "PreAnalyze"}) =>
                   ~accepted
             /\ ~accepted =>
                   /\ mgrState' = mgrState
                   /\ UNCHANGED <<deps, executed, startOrder, actResult>>
                   /\ UNCHANGED trackerFields ]_vars

C6_Witness ==
    /\ mgrCall.op = "observe"
    /\ mgrCall.afterReject
    /\ mgrRet.kind = "ok"
    /\ mgrState = "PreAnalyze"

\* a step in which the caller makes a call on the manager
MgrCallStep == mgrRet.kind # "pending" /\ mgrCall' # mgrCall

MgrAccepted(ret) == ret.kind \in {"ok", "pending"}

Tracked == {n \in PlanNodes : shouldTrackStatus(n)}

\* C16: a dry run of act starts no executor and leaves the task of every
\* tracked node Skipped (never Started or Complete), and finish is accepted
\* after it.
C16_DryRunCallsNoAction ==
    /\ []((actResult.valid /\ actResult.dryRun) =>
            /\ \A n \in PlanNodes : executed[n] = "none"
            /\ startOrder = <<>>
            /\ \A n \in Tracked : taskMap[n] = "Skipped"
            /\ \A n \in PlanNodes \ Tracked : taskMap[n] = "NoTask")
    /\ [][ (MgrCallStep /\ mgrCall'.op = "finish" /\ actResult.valid /\ actResult.dryRun) =>
              (mgrRet'.kind = "ok" /\ mgrState' = "Finished"
               /\ taskMap' = taskMap /\ executed' = executed) ]_vars

C16_Witness ==
    /\ actResult.valid /\ actResult.dryRun
    /\ mgrCall.op = "finish"
    /\ mgrRet.kind = "ok"
    /\ mgrState = "Finished"
    /\ deps = Chain
    /\ dryRun
    /\ \A n \in Tracked : taskMap[n] = "Skipped"
    /\ \A n \in PlanNodes : executed[n] = "none"

C20_FinishAfterStartRejected ==
    /\ [][ (MgrCallStep /\ mgrCall'.op = "finish" /\ mgrState = "PreObserve") =>
              /\ mgrRet' = [kind |-> "IllegalSequence", from |-> "PreObserve",
                            to |-> "Finishing"]
              /\ mgrState' = "PreObserve" ]_vars
    /\ [][ (MgrCallStep /\ mgrCall'.op = "observe" /\ mgrCall'.afterReject
            /\ mgrCall'.afterFinish /\ mgrState = "PreObserve") =>
              (mgrRet'.kind = "ok" /\ mgrState' = "PreAnalyze") ]_vars

C20_Witness ==
    /\ mgrCall.op = "observe"
    /\ mgrCall.afterReject
    /\ mgrCall.afterFinish
    /\ mgrRet.kind = "ok"
    /\ mgrState = "PreAnalyze"

\* the actions whose executor is running
Running == {n \in PlanNodes : executed[n] = "running"}

\* a plan without dependencies
Independent == [n \in PlanNodes |-> {}]

\* C21: the number of executors running at the same time is limited by the
\* dependency graph alone: while act runs, the running actions are exactly
\* the unsettled ones whose predecessors have all completed; with
\* independent actions all of them run at once; with the actions in a
\* dependency line at most one runs at any time.
C21_ConcurrencyBoundedByGraphOnly ==
    /\ mgrState = "Acting" =>
          Running = {n \in PlanNodes :
                       ~Settled(n) /\ \A p \in deps[n] : executed[p] = "ok"}
    /\ (mgrState = "Acting" /\ deps = Independent /\ \A n \in PlanNodes : ~Settled(n)) =>
          Cardinality(Running) = NumActions
    /\ deps = Chain => Cardinality(Running) <= 1

C21_Witness ==
    /\ mgrState = "Acting"
    /\ deps = Independent
    /\ Cardinality(Running) = NumActions
    /\ \A n \in PlanNodes : statMap[n] = "Deploying"

\* ------------------------------------------------------------------------
\* Observer registry: registerObserver and observe
\* ------------------------------------------------------------------------
\* a registration that replaces the observer registered under the name
registerObserver_replaces(reg, obs, name) ==
    [threw |-> FALSE,
     observers |-> [n \in DOMAIN reg.observers \cup {name} |->
                      IF n = name THEN obs ELSE reg.observers[n]],
     observerName |-> reg.observerName,
     name |-> name]

\* registerObserver(obs, name) on the registry and the constructors' names:
\* a name already in the registry throws before anything is written
registerObserver(reg, obs, name) ==
    IF name \in DOMAIN reg.observers
    THEN [threw |-> TRUE, observers |-> reg.observers,
          observerName |-> reg.observerName, name |-> name]
    ELSE [threw |-> FALSE,
          observers |-> [n \in DOMAIN reg.observers \cup {name} |->
                           IF n = name THEN obs ELSE reg.observers[n]],
          observerName |-> IF reg.observerName[obs] = 0
                           THEN [reg.observerName EXCEPT ![obs] = name]
                           ELSE reg.observerName,
          name |-> name]

RegisterObserver ==
    /\ \E obs \in ObserverPlugins, name \in ObserverNames :
       \E r \in {registerObserver([observers |-> observers,
                                   observerName |-> observerName], obs, name)} :
          /\ observers' = r.observers
          /\ observerName' = r.observerName
          /\ regRet' = [kind |-> IF r.threw THEN "duplicate" ELSE "ok",
                        name |-> name, obs |-> obs]
    /\ UNCHANGED <<executedQueries, observerNames, waitFors, retMap, errors,
                   warnings, obsRet>>
    /\ UNCHANGED outsideRegistry

\* executedQueries[name] ? executedQueries[name] : []
queriesFor(eq, name) == IF name \in DOMAIN eq THEN eq[name] ELSE <<>>

\* a result map that holds the last result only
withResult_lastOnly(r, name, observations, queries) ==
    [n \in {name} |-> [observations |-> observations, queries |-> queries]]

\* ret[name] = { observations, queries }
withResult(r, name, observations, queries) ==
    [n \in DOMAIN r \cup {name} |->
        IF n = name THEN [observations |-> observations, queries |-> queries]
        ELSE r[n]]

\* the observers the loop of observe starts: names without an observer are
\* skipped
startedBy(names, registry) == names \cap DOMAIN registry

\* observe, up to its await: every requested observer that is registered is
\* started
RegistryObserve ==
    /\ obsRet.kind # "pending"
    /\ \E names \in SUBSET ObserverNames :
       \E withQueries \in SUBSET names :
          /\ observerNames' = names
          /\ executedQueries' = [n \in withQueries |-> <<"query">>]
          /\ waitFors' = [n \in ObserverNames |->
                            IF n \in startedBy(names, observers) THEN "pending" ELSE "none"]
    /\ retMap' = NoResults
    /\ errors' = <<>>
    /\ warnings' = <<>>
    /\ obsRet' = [kind |-> "pending"]
    /\ UNCHANGED <<observers, observerName, regRet>>
    /\ UNCHANGED outsideRegistry

\* obs.observe(queries) resolves or throws inside its own try block
ObserverSettles ==
    /\ \E name \in ObserverNames :
          /\ waitFors[name] = "pending"
          /\ \/ \E observations \in Data :
                   /\ retMap' = withResult(retMap, name, observations,
                                            queriesFor(executedQueries, name))
                   /\ waitFors' = [waitFors EXCEPT ![name] = "resolved"]
                   /\ UNCHANGED <<errors, warnings>>
             \/ /\ warnings' = Append(warnings, name)
                /\ errors' = Append(errors, name)
                /\ waitFors' = [waitFors EXCEPT ![name] = "caught"]
                /\ UNCHANGED retMap
    /\ UNCHANGED <<observers, observerName, regRet, executedQueries,
                   observerNames, obsRet>>
    /\ UNCHANGED outsideRegistry

\* an await that gives up on the first error instead of waiting for all
ObserveReturns_failFast ==
    /\ obsRet.kind = "pending"
    /\ errors # <<>> \/ \A n \in ObserverNames : waitFors[n] # "pending"
    /\ obsRet' = IF errors # <<>>
                 THEN [kind |-> "rejected", msgs |-> errors, observations |-> retMap]
                 ELSE [kind |-> "resolved", observations |-> retMap]
    /\ UNCHANGED <<observers, observerName, regRet, executedQueries,
                   observerNames, waitFors, retMap, errors, warnings>>
    /\ UNCHANGED outsideRegistry

\* after Promise.all(waitFors): throw the aggregate error carrying ret, or
\* return ret
ObserveReturns ==
    /\ obsRet.kind = "pending"
    /\ \A n \in ObserverNames : waitFors[n] # "pending"
    /\ obsRet' = IF errors # <<>>
                 THEN [kind |-> "rejected", msgs |-> errors, observations |-> retMap]
                 ELSE [kind |-> "resolved", observations |-> retMap]
    /\ UNCHANGED <<observers, observerName, regRet, executedQueries,
                   observerNames, waitFors, retMap, errors, warnings>>
    /\ UNCHANGED outsideRegistry

\* registration alone, from the empty registry of a freshly loaded module
InitRegister ==
    /\ IdleOps
    /\ IdleStyle
    /\ IdleTracker
    /\ IdleCommit
    /\ IdleDeploy
    /\ IdleMgr
    /\ IdleRegistry

NextRegister == RegisterObserver

SpecRegister == InitRegister /\ [][NextRegister]_vars

Lowest(S) == CHOOSE x \in S : \A y \in S : x <= y

Highest(S) == CHOOSE x \in S : \A y \in S : y <= x

\* the registry after obs was registered under the names S in rising order
registeredUnder(S, obs) ==
    [observers |-> [n \in S |-> obs],
     observerName |-> [o \in ObserverPlugins |->
                         IF o = obs /\ S # {} THEN Lowest(S) ELSE 0],
     regRet |-> IF S = {} THEN [kind |-> "none"]
                ELSE [kind |-> "ok", name |-> Highest(S), obs |-> obs]]

\* observe is called after the observers have registered, which they do
\* when their modules are loaded
InitRegistry ==
    /\ IdleOps
    /\ IdleStyle
    /\ IdleTracker
    /\ IdleCommit
    /\ IdleDeploy
    /\ IdleMgr
    /\ \E S \in SUBSET ObserverNames :
       \E reg \in {registeredUnder(S, "obsA")} :
          /\ observers = reg.observers
          /\ observerName = reg.observerName
          /\ regRet = reg.regRet
    /\ executedQueries = NoQueries
    /\ observerNames = {}
    /\ waitFors = [n \in ObserverNames |-> "none"]
    /\ retMap = NoResults
    /\ errors = <<>>
    /\ warnings = <<>>
    /\ obsRet = [kind |-> "none"]

NextRegistry ==
    \/ RegistryObserve
    \/ ObserverSettles
    \/ ObserveReturns

SpecRegistry == InitRegistry /\ [][NextRegistry]_vars

\* ------------------------------------------------------------------------
\* Properties of the observer registry
\* ------------------------------------------------------------------------
\* the observers of the current call that resolved, and those that threw
Succeeded == {n \in ObserverNames : waitFors[n] = "resolved"}

Failed == {n \in ObserverNames : waitFors[n] = "caught"}

C33_DuplicateObserverNameThrows ==
    [][ /\ regRet'.kind \in {"ok", "duplicate"}
        /\ regRet'.kind = "duplicate" <=> regRet'.name \in DOMAIN observers
        /\ regRet'.kind = "duplicate" =>
              /\ observers' = observers
              /\ observerName' = observerName
        /\ regRet'.kind = "ok" =>
              /\ DOMAIN observers' = DOMAIN observers \cup {regRet'.name}
              /\ observers'[regRet'.name] = regRet'.obs
              /\ \A n \in DOMAIN observers : observers'[n] = observers[n] ]_vars

C33_Witness ==
    /\ regRet.kind = "duplicate"
    /\ regRet.obs = "obsB"
    /\ regRet.name \in DOMAIN observers
    /\ observers[regRet.name] = "obsA"
    /\ Cardinality(DOMAIN observers) >= 2

Tag(name) == [type |-> "tag", name |-> name, data |-> <<>>]

Pseudo(name, data) == [type |-> "pseudo", name |-> name, data |-> data]

\* [name action "value"]
Attribute(name, action, value) ==
    [type |-> "attribute", name |-> name, data |-> <<>>, action |-> action,
     value |-> value]

Child == [type |-> "child", name |-> "", data |-> <<>>]

Descendant == [type |-> "descendant", name |-> "", data |-> <<>>]

Element(inst, componentType, id) ==
    [inst |-> inst, componentType |-> componentType, id |-> id]

\* last(arr): the array without its last element, and that element
last(arr) == [prefix |-> SubSeq(arr, 1, Len(arr) - 1), elem |-> arr[Len(arr)]]

\* a matcher returns a Matched value
Returns(p, m) == [newPath |-> p, matched |-> m, thrown |-> NoError]

\* a matcher throws
Throws(e) == [newPath |-> <<>>, matched |-> FALSE, thrown |-> e]

\* the keys of the model: the child with id i has the key that is i times
\* the letter i, the root has no key
keyOf(id) == [i \in 1..id |-> "i"]

Undefined == <<"undefined">>

\* getPropValue: the value of a prop when it is a string; css-what in
\* xmlMode never asks to ignore case
getPropValue(elem, prop) ==
    IF prop = "key" /\ elem.id > 0 THEN keyOf(elem.id) ELSE Undefined

startsWith(value, x) == Len(x) <= Len(value) /\ SubSeq(value, 1, Len(x)) = x

endsWith(value, x) ==
    Len(x) <= Len(value) /\ SubSeq(value, Len(value) - Len(x) + 1, Len(value)) = x

includes(value, x) ==
    \E i \in 0..(Len(value) - Len(x)) : SubSeq(value, i + 1, i + Len(x)) = x

\* any depth counts as the root
matchRoot_anyDepth(frag, p) == Returns(p, TRUE)

matchRoot(frag, p) == Returns(p, Len(p) = 1)

\* no key holds white space, so "element" compares the whole value
matchAttribute(frag, p) ==
    LET value == getPropValue(last(p).elem, frag.name)
        action == frag.action
        fragValue == frag.value
    IN IF value = Undefined THEN Returns(p, FALSE)
       ELSE CASE action = "exists" -> Returns(p, TRUE)
              [] action = "equals" -> Returns(p, value = fragValue)
              [] action = "start" -> Returns(p, startsWith(value, fragValue))
              [] action = "any" -> Returns(p, includes(value, fragValue))
              [] action = "end" -> Returns(p, endsWith(value, fragValue))
              [] action = "element" -> Returns(p, value = fragValue)
              [] OTHER -> Throws(Thrown("CSS attribute selector action not supported",
                                        action))

\* uniqueName(elem.componentType) === frag.name: a component type is its
\* own unique name
matchTag(frag, p) == Returns(p, last(p).elem.componentType = frag.name)

\* a child combinator that stays on the same element
matchChild_keepsPath(frag, p) ==
    IF Len(p) < 1 THEN Returns(p, FALSE)
    ELSE Returns(p, TRUE)

matchChild(frag, p) ==
    IF Len(p) < 1 THEN Returns(p, FALSE)
    ELSE Returns(SubSeq(p, 1, Len(p) - 1), TRUE)

RECURSIVE matchWithSelector(_, _)
RECURSIVE matchWithSelectorFrom(_, _, _)
RECURSIVE matchWithBlock(_, _)
RECURSIVE matchDescendant(_, _)
RECURSIVE matchDescendantFrom(_, _, _)
RECURSIVE matchFrag(_, _)
RECURSIVE matchPseudo(_, _)
RECURSIVE matchNot(_, _)

matchNot(frag, p) ==
    IF frag.data = <<>> \/ frag.data[1] = <<>>
    THEN Throws(Thrown("CSS :not requires at least one selector argument", "not"))
    ELSE LET r == matchWithSelector(frag.data, p) IN
         IF r.thrown # NoError THEN Throws(r.thrown)
         ELSE Returns(p, ~r.matched)

\* matchPseudoConfig: any other pseudo-class throws
matchPseudo(frag, p) ==
    CASE frag.name = "root" -> matchRoot(frag, p)
      [] frag.name = "not" -> matchNot(frag, p)
      [] OTHER -> Throws(Thrown("Unsupported CSS pseudo-class", frag.name))

\* matchConfig: descendant is handled by matchWithBlock, any other fragment
\* type throws
matchFrag(selFrag, p) ==
    CASE selFrag.type = "attribute" -> matchAttribute(selFrag, p)
      [] selFrag.type = "child" -> matchChild(selFrag, p)
      [] selFrag.type = "descendant" -> Throws(Thrown("should not get here", "descendant"))
      [] selFrag.type = "pseudo" -> matchPseudo(selFrag, p)
      [] selFrag.type = "tag" -> matchTag(selFrag, p)
      [] OTHER -> Throws(Thrown("Unsupported selector fragment", selFrag.type))

\* for (i = 1; i < path.length; i++) with tryPath = path.slice(0, -i): the
\* first tryPath that matches or throws ends the loop
matchDescendantFrom(sel, p, i) ==
    IF i >= Len(p) THEN Returns(p, FALSE)
    ELSE LET r == matchWithSelector(<<sel>>, SubSeq(p, 1, Len(p) - i)) IN
         IF r.thrown # NoError \/ r.matched THEN r
         ELSE matchDescendantFrom(sel, p, i + 1)

matchDescendant(sel, p) ==
    IF Len(sel) <= 0 THEN Throws(Thrown("validated but malformed CSS", "descendant"))
    ELSE matchDescendantFrom(sel, p, 1)

matchWithBlock(selBlock, p) ==
    IF selBlock = <<>> THEN Returns(p, TRUE)
    ELSE LET l == last(selBlock) IN
         IF l.elem.type = "descendant" THEN matchDescendant(l.prefix, p)
         ELSE LET m == matchFrag(l.elem, p) IN
              IF m.thrown # NoError THEN m
              ELSE IF ~m.matched THEN Returns(p, FALSE)
              ELSE IF Len(m.newPath) = 0 THEN Returns(p, FALSE)
              ELSE matchWithBlock(l.prefix, m.newPath)

\* for (const block of selector): the first block that matches or throws
\* ends the loop
matchWithSelectorFrom(sel, p, i) ==
    IF i > Len(sel) THEN Returns(p, FALSE)
    ELSE LET r == matchWithBlock(sel[i], p) IN
         IF r.thrown # NoError \/ r.matched THEN r
         ELSE matchWithSelectorFrom(sel, p, i + 1)

matchWithSelector(sel, p) == matchWithSelectorFrom(sel, p, 1)

\* rule.match(path) where it returns
ruleMatch(sel, p) == matchWithSelector(sel, p).matched

\* the component types of the paths handed to match
MatchTypes == {"Group", "Empty"}

\* the fragments that test one element
SimpleFrags ==
    {Tag(t) : t \in MatchTypes} \cup {Pseudo("root", <<>>)}
        \cup {Pseudo("not", << <<Tag("Group")>> >>)}

isCombinator(frag) == frag.type \in {"child", "descendant"}

\* the blocks css-what produces: combinators stand between fragments
Blocks ==
    UNION {{b \in [1..n -> SimpleFrags \cup {Child, Descendant}] :
               /\ ~isCombinator(b[1])
               /\ ~isCombinator(b[n])
               /\ \A i \in 1..(n - 1) : ~(isCombinator(b[i]) /\ isCombinator(b[i + 1]))}
           : n \in 1..MaxFrags}

\* selector lists: one block, or that block and a second, simple one
Selectors ==
    {<<b>> : b \in Blocks} \cup
    {<<b, <<Tag(t)>> >> : b \in Blocks, t \in MatchTypes}

\* root-to-element paths; the instance of an element is its depth
Paths ==
    UNION {{[i \in 1..n |-> Element(i, f[i], 0)] : f \in [1..n -> MatchTypes]}
           : n \in 1..MaxPath}

\* a rule built by buildStyle and a path to try it on
InitMatch ==
    /\ IdleOps
    /\ IdleTracker
    /\ IdleCommit
    /\ IdleDeploy
    /\ IdleMgr
    /\ IdleRegistry
    /\ selector \in Selectors
    /\ path \in Paths
    /\ matched = NotMatched
    /\ matchInfoReg \in {createMatchInfoReg,
                          [el \in {1} |-> [matched |-> {1}, neverMatch |-> FALSE]]}
    /\ styles = <<>>
    /\ dom = NoTree
    /\ compState = <<>>
    /\ buildPass = 0
    /\ pos = 0
    /\ cur = NoElement
    /\ built = [root |-> NoElement, kids |-> <<>>]
    /\ nextInst = 1
    /\ invoked = <<>>
    /\ lastOverride = NoOverride
    /\ passChanged = FALSE
    /\ buildState = "none"

\* StyleRule.match(path)
Match ==
    /\ matched = NotMatched
    /\ \E r \in {matchWithSelector(selector, path)} :
          matched' = [called |-> TRUE, result |-> r.matched, thrown |-> r.thrown]
    /\ UNCHANGED <<selector, path, matchInfoReg, buildVars>>
    /\ UNCHANGED outsideStyle

NextMatch == Match

SpecMatch == InitMatch /\ [][NextMatch]_vars

\* fragments css-what parses and matchConfig has no matcher for
Universal == [type |-> "universal", name |-> "", data |-> <<>>]

Hover == Pseudo("hover", <<>>)

\* the fragments of selectors that use such syntax: '*', ':hover' and
\* ':not(:hover)' beside a tag, an attribute and the combinators
MixedFrags ==
    {Tag("Empty"), Attribute("key", "exists", <<>>), Universal, Hover,
     Pseudo("not", << <<Hover>> >>)}

isSupported(frag) ==
    \/ frag.type \in {"tag", "attribute", "child", "descendant"}
    \/ frag.type = "pseudo" /\ frag.name \in {"root", "not"}

RECURSIVE unsupportedIn(_)
RECURSIVE unsupportedInFrag(_)

\* the names of the syntax in a selector that the engine does not support
unsupportedInFrag(frag) ==
    IF frag.type = "pseudo" /\ frag.name = "not" THEN unsupportedIn(frag.data)
    ELSE IF isSupported(frag) THEN {}
    ELSE IF frag.type = "pseudo" THEN {frag.name}
    ELSE {frag.type}

unsupportedIn(sel) ==
    UNION {UNION {unsupportedInFrag(sel[i][j]) : j \in 1..Len(sel[i])}
           : i \in 1..Len(sel)}

MixedBlocks ==
    UNION {{b \in [1..n -> MixedFrags \cup {Child, Descendant}] :
               /\ ~isCombinator(b[1])
               /\ ~isCombinator(b[n])
               /\ \A i \in 1..(n - 1) : ~(isCombinator(b[i]) /\ isCombinator(b[i + 1]))}
           : n \in 1..MaxFrags}

\* selector lists that hold syntax without a matcher
UnsupportedSelectors ==
    {sel \in {<<b>> : b \in MixedBlocks} \cup
              {<<b, <<Tag(t)>> >> : b \in MixedBlocks, t \in MatchTypes} \cup
              {<< <<Tag(t)>>, b>> : b \in MixedBlocks, t \in MatchTypes} :
        unsupportedIn(sel) # {}}

\* a rule whose selector holds unsupported syntax and a path to try it on
InitMatchUnsupported ==
    /\ IdleOps
    /\ IdleTracker
    /\ IdleCommit
    /\ IdleDeploy
    /\ IdleMgr
    /\ IdleRegistry
    /\ selector \in UnsupportedSelectors
    /\ path \in Paths
    /\ matched = NotMatched
    /\ matchInfoReg = createMatchInfoReg
    /\ styles = <<>>
    /\ dom = NoTree
    /\ compState = <<>>
    /\ buildPass = 0
    /\ pos = 0
    /\ cur = NoElement
    /\ built = [root |-> NoElement, kids |-> <<>>]
    /\ nextInst = 1
    /\ invoked = <<>>
    /\ lastOverride = NoOverride
    /\ passChanged = FALSE
    /\ buildState = "none"

SpecMatchUnsupported == InitMatchUnsupported /\ [][NextMatch]_vars

\* C34: matching a selector that holds a fragment type or a pseudo-class
\* other than tag, attribute, child, descendant, :root and :not throws an
\* error that names this syntax; it never returns that the selector matches
\* or that it does not
C34_UnsupportedSyntaxThrows ==
    matched.called =>
        /\ matched.thrown # NoError
        /\ matched.thrown.syntax \in unsupportedIn(selector)

\* what the matcher does: a block whose last fragment has no matcher throws
\* an error naming it when the blocks before it do not match
LastFragmentUnsupportedThrows ==
    (/\ matched.called
     /\ Len(selector) = 1
     /\ ~isSupported(selector[1][Len(selector[1])])) =>
        /\ matched.thrown # NoError
        /\ matched.thrown.syntax \in unsupportedInFrag(selector[1][Len(selector[1])])

\* ------------------------------------------------------------------------
\* Properties of StyleRule.match
\* ------------------------------------------------------------------------
RECURSIVE SelectorHolds(_, _)

\* what a fragment that tests one element says about the path ending in it
FragHolds(frag, p) ==
    CASE frag.type = "tag" -> p[Len(p)].componentType = frag.name
      [] frag.type = "pseudo" /\ frag.name = "root" -> Len(p) = 1
      [] frag.type = "pseudo" /\ frag.name = "not" -> ~SelectorHolds(frag.data, p)

\* a block holds of a path when its fragments can be placed at depths of the
\* path: the last at the deepest element, fragments without a combinator
\* between them at the same depth, the left side of a child combinator one
\* level above its right side, the left side of a descendant combinator at
\* some level above, and every placed fragment holding of the path down to
\* its depth
BlockHolds(block, p) ==
    \E depth \in [1..Len(block) -> 1..Len(p)] :
        /\ depth[Len(block)] = Len(p)
        /\ \A i \in 1..(Len(block) - 1) :
              IF isCombinator(block[i + 1]) THEN
                  IF block[i + 1].type = "child"
                  THEN depth[i] = depth[i + 1] - 1
                  ELSE depth[i] < depth[i + 1]
              ELSE depth[i] = depth[i + 1]
        /\ \A i \in 1..Len(block) :
              isCombinator(block[i]) \/ FragHolds(block[i], SubSeq(p, 1, depth[i]))

SelectorHolds(sel, p) == \E i \in 1..Len(sel) : BlockHolds(sel[i], p)

\* C27: match(path) is true exactly when some block of the selector list
\* matches: its last fragment holds of the deepest element, across a child
\* combinator the rest holds of the path without its last element (which
\* must leave an element), across a descendant combinator the rest holds
\* of some shorter, non-empty prefix of the path; match changes neither
\* the path nor the match registry.
C27_MatchSemantics ==
    /\ [](matched.called => matched.result = SelectorHolds(selector, path))
    /\ [][ matched' # matched =>
              /\ path' = path
              /\ selector' = selector
              /\ matchInfoReg' = matchInfoReg ]_vars

C27_Witness ==
    /\ matched.called /\ matched.result
    /\ Len(path) = MaxPath
    /\ Len(selector) = 1
    /\ \E i \in 1..Len(selector[1]) : selector[1][i].type = "descendant"
    /\ \E i \in 1..Len(selector[1]) : selector[1][i].type = "pseudo"
    /\ matchInfoReg # createMatchInfoReg

\* ------------------------------------------------------------------------
\* Style engine: the match registry
\* ------------------------------------------------------------------------
\* a MatchInfo with neither field set
NoMatchInfo == [matched |-> {}, neverMatch |-> FALSE]

\* getCssMatched: the entry of el, created empty when there is none
getCssMatched(reg, el) == IF el \in DOMAIN reg THEN reg[el] ELSE NoMatchInfo

\* reg.set(el, mi)
regSet(reg, el, mi) ==
    [e \in DOMAIN reg \cup {el} |-> IF e = el THEN mi ELSE reg[e]]

\* a registry that forgets what has matched
ruleHasMatched_forgets(reg, el, r) == FALSE

ruleHasMatched(reg, el, r) == r \in getCssMatched(reg, el).matched

ruleMatches(reg, el, r) ==
    regSet(reg, el, [getCssMatched(reg, el) EXCEPT !.matched = @ \cup {r}])

canMatch(reg, el) == ~getCssMatched(reg, el).neverMatch

\* a copy that leaves out the rule being applied
copyRuleMatches_none(reg, fromEl, toEl) ==
    regSet(regSet(reg, fromEl, getCssMatched(reg, fromEl)), toEl, getCssMatched(reg, toEl))

copyRuleMatches(reg, fromEl, toEl) ==
    LET from == getCssMatched(reg, fromEl)
        to == getCssMatched(reg, toEl)
        reg1 == regSet(reg, fromEl, from)
    IN IF from.neverMatch
       THEN regSet(reg1, toEl, [to EXCEPT !.neverMatch = TRUE])
       ELSE regSet(reg1, toEl, [to EXCEPT !.matched = @ \cup from.matched])

\* ruleNoRematch(info, elem) for a newly created elem
ruleNoRematch(reg, origElement, elem) == copyRuleMatches(reg, origElement, elem)

\* ------------------------------------------------------------------------
\* Build: one pass over a tree with a style list, and the passes of a build
\* ------------------------------------------------------------------------
isPrimitive(componentType) == componentType \in {"Group", "Empty", "Wrapper"}

isStateful(componentType) == componentType \in {"GroupThenEmpty", "Iterate"}

\* a selector list of one tag
TagSelector(t) == << <<Tag(t)>> >>

\* 'Empty[key="..."]' with the key of the child that has this id
KeyedSelector(t, id) == << <<Tag(t), Attribute("key", "equals", keyOf(id))>> >>

\* ':root:not(Wrapper)'
RootNotWrapper ==
    << <<Pseudo("root", <<>>), Pseudo("not", TagSelector("Wrapper"))>> >>

\* what the override of a rule returns: the original element, the original
\* build, a replacement, a replacement for the element with id 1 only, a
\* new element of the same type passed through ruleNoRematch, or a new
\* element of the same type
Overrides ==
    {"origElement", "origBuild", "replace", "replaceFirst", "ruleNoRematch",
     "replaceSame"}

StyleRule(sel, sfc) == [selector |-> sel, sfc |-> sfc]

\* style lists whose rules share one kind of override
StyleLists(sels, sfcs) ==
    UNION {{[i \in 1..n |-> StyleRule(f[i], sfc)] : f \in [1..n -> sels], sfc \in sfcs}
           : n \in 1..NumRules}

\* a tree to build: the type of its root, the type and id of each child of
\* the root, and the number of state mutations each stateful component of
\* the tree makes before it settles
Tree(rootType, kids, count) == [root |-> rootType, kids |-> kids, count |-> count]

Kid(componentType, id) == [componentType |-> componentType, id |-> id]

\* the element a pass starts from at a position of the tree
origElement(tree, p) ==
    IF p = 0 THEN Element(1, tree.root, 0)
    ELSE IF p <= Len(tree.kids)
         THEN Element(1 + p, tree.kids[p].componentType, tree.kids[p].id)
    ELSE NoElement

\* the path of the element being mounted
curPath == IF pos = 0 THEN <<cur>> ELSE <<built.root, cur>>

\* the first matching rule of the list wins
findOverride_firstRule(sl, p, reg) ==
    LET el == p[Len(p)].inst
        cand == {r \in 1..Len(sl) :
                   /\ canMatch(reg, el)
                   /\ ~ruleHasMatched(reg, el, r)
                   /\ ruleMatch(sl[r].selector, p)}
    IN IF cand = {} THEN 0 ELSE CHOOSE r \in cand : \A q \in cand : r <= q

\* the rule whose override is applied next: the last rule of the list that
\* has not matched this element and whose selector matches its path
findOverride(sl, p, reg) ==
    LET el == p[Len(p)].inst
        cand == {r \in 1..Len(sl) :
                   /\ canMatch(reg, el)
                   /\ ~ruleHasMatched(reg, el, r)
                   /\ ruleMatch(sl[r].selector, p)}
    IN IF cand = {} THEN 0 ELSE CHOOSE r \in cand : \A q \in cand : q <= r

\* what a composite component builds to, given the mutations it still makes
buildOutput(el, inst, remaining) ==
    CASE el.componentType = "MakeMakeEmpty" -> Element(inst, "MakeEmpty", el.id)
      [] el.componentType = "MakeEmpty" -> Element(inst, "Empty", el.id)
      [] el.componentType = "GroupThenEmpty" ->
            IF remaining > 0 THEN Element(inst, "Group", el.id)
            ELSE Element(inst, "Empty", 1)
      [] el.componentType = "Iterate" -> NoElement
      [] OTHER -> el

\* a rule that replaces every element it matches
effectiveOverride_replacesAll(sfc, el) ==
    IF sfc = "replaceFirst" THEN "replaceMake" ELSE sfc

\* what the override does for this element: replaceFirst replaces the
\* element with id 1 by a MakeEmpty and returns the original build of any
\* other
effectiveOverride(sfc, el) ==
    IF sfc = "replaceFirst"
    THEN (IF el.id = 1 THEN "replaceMake" ELSE "origBuild")
    ELSE sfc

Mounting == buildState = "building" /\ pos <= Len(dom.kids) /\ cur # NoElement

\* the override of the matching rule is called and its result takes the
\* place of the element
ApplyOverride ==
    /\ Mounting
    /\ \E r \in {findOverride(styles, curPath, matchInfoReg)} :
          /\ r # 0
          /\ \E reg1 \in {ruleMatches(matchInfoReg, cur.inst, r)} :
             \E sfc \in {effectiveOverride(styles[r].sfc, cur)} :
             \E fresh \in {(\/ sfc \in {"replace", "replaceMake", "ruleNoRematch",
                                         "replaceSame"}
                              \/ (sfc = "origBuild" /\ ~isPrimitive(cur.componentType)))} :
               /\ sfc = "replaceSame" => nextInst <= MaxElems
               /\ cur' = CASE sfc = "origElement" -> cur
                            [] sfc = "origBuild" ->
                                 buildOutput(cur, nextInst, compState[pos])
                            [] sfc = "replace" -> Element(nextInst, "Wrapper", cur.id)
                            [] sfc = "replaceMake" ->
                                 Element(nextInst, "MakeEmpty", ReplaceId)
                            [] OTHER -> Element(nextInst, cur.componentType, cur.id)
               /\ matchInfoReg' = IF sfc = "ruleNoRematch"
                                   THEN ruleNoRematch(reg1, cur.inst, nextInst)
                                   ELSE reg1
               /\ nextInst' = IF fresh THEN nextInst + 1 ELSE nextInst
               /\ invoked' = Append(invoked,
                                 [rule |-> r, inst |-> cur.inst, pass |-> buildPass,
                                  pos |-> pos, id |-> cur.id,
                                  componentType |-> cur.componentType])
               /\ lastOverride' = [rule |-> r, sfc |-> sfc, orig |-> cur.inst,
                                    result |-> cur'.inst, pass |-> buildPass,
                                    origMatched |-> getCssMatched(reg1, cur.inst).matched]
               /\ IF sfc = "origBuild" /\ isStateful(cur.componentType) /\ compState[pos] > 0
                  THEN compState' = [compState EXCEPT ![pos] = @ - 1] /\ passChanged' = TRUE
                  ELSE UNCHANGED <<compState, passChanged>>
    /\ UNCHANGED <<styles, dom, buildPass, pos, built, buildState>>
    /\ UNCHANGED <<matchVars, outsideStyle>>

\* no rule matches a composite element: it is built; a build that mutates
\* the component's state asks for another pass
BuildComponent ==
    /\ Mounting
    /\ findOverride(styles, curPath, matchInfoReg) = 0
    /\ ~isPrimitive(cur.componentType)
    /\ cur' = buildOutput(cur, nextInst, compState[pos])
    /\ nextInst' = nextInst + 1
    /\ IF isStateful(cur.componentType) /\ compState[pos] > 0
       THEN compState' = [compState EXCEPT ![pos] = @ - 1] /\ passChanged' = TRUE
       ELSE UNCHANGED <<compState, passChanged>>
    /\ UNCHANGED <<styles, dom, buildPass, pos, built, invoked, lastOverride,
                   buildState, matchInfoReg>>
    /\ UNCHANGED <<matchVars, outsideStyle>>

\* the tree built so far with el, or nothing for null, at position p
withBuilt(b, p, el) ==
    IF p = 0 THEN [b EXCEPT !.root = el]
    ELSE IF el = NoElement THEN b
    ELSE [b EXCEPT !.kids = Append(@, el)]

\* no rule matches a primitive element, or the component built to null: it
\* enters the final tree and the next element is mounted
MountElement ==
    /\ buildState = "building"
    /\ pos <= Len(dom.kids)
    /\ \/ cur = NoElement
       \/ /\ isPrimitive(cur.componentType)
          /\ findOverride(styles, curPath, matchInfoReg) = 0
    /\ built' = withBuilt(built, pos, cur)
    /\ pos' = pos + 1
    /\ cur' = origElement(dom, pos + 1)
    /\ UNCHANGED <<styles, dom, compState, buildPass, nextInst, invoked,
                   lastOverride, passChanged, buildState, matchInfoReg>>
    /\ UNCHANGED <<matchVars, outsideStyle>>

PassOver == buildState = "building" /\ pos = Len(dom.kids) + 1

\* the tree a finished build hands back, as a tree to build
finalTree(b) ==
    Tree(b.root.componentType,
         [i \in 1..Len(b.kids) |-> Kid(b.kids[i].componentType, b.kids[i].id)], 0)

\* buildOnce returns after its one pass
BuildOnceReturns ==
    /\ PassOver
    /\ buildState' = "done"
    /\ UNCHANGED <<styles, dom, compState, buildPass, pos, cur, built, nextInst,
                   invoked, lastOverride, passChanged, matchInfoReg>>
    /\ UNCHANGED <<matchVars, outsideStyle>>

\* buildOnce is called again, with the same styles, on the tree it returned
Reapply ==
    /\ buildState = "done"
    /\ buildPass = 1
    /\ dom' = finalTree(built)
    /\ buildPass' = 2
    /\ matchInfoReg' = createMatchInfoReg
    /\ pos' = 0
    /\ cur' = origElement(finalTree(built), 0)
    /\ built' = [root |-> NoElement, kids |-> <<>>]
    /\ nextInst' = 2 + Len(built.kids)
    /\ buildState' = "building"
    /\ UNCHANGED <<styles, compState, invoked, lastOverride, passChanged>>
    /\ UNCHANGED <<matchVars, outsideStyle>>

\* the passes of build: another pass after a pass that mutated state
NextPass_keepsRegistry ==
    /\ PassOver
    /\ passChanged
    /\ buildPass < maxBuildPasses
    /\ buildPass' = buildPass + 1
    /\ passChanged' = FALSE
    /\ pos' = 0
    /\ cur' = origElement(dom, 0)
    /\ built' = [root |-> NoElement, kids |-> <<>>]
    /\ nextInst' = 2 + Len(dom.kids)
    /\ UNCHANGED <<styles, dom, compState, invoked, lastOverride, buildState, matchInfoReg>>
    /\ UNCHANGED <<matchVars, outsideStyle>>

NextPass ==
    /\ PassOver
    /\ passChanged
    /\ buildPass < maxBuildPasses
    /\ buildPass' = buildPass + 1
    /\ passChanged' = FALSE
    /\ matchInfoReg' = createMatchInfoReg
    /\ pos' = 0
    /\ cur' = origElement(dom, 0)
    /\ built' = [root |-> NoElement, kids |-> <<>>]
    /\ nextInst' = 2 + Len(dom.kids)
    /\ UNCHANGED <<styles, dom, compState, invoked, lastOverride, buildState>>
    /\ UNCHANGED <<matchVars, outsideStyle>>

\* a build that returns after its first pass whatever the pass did
BuildReturns_afterOnePass ==
    /\ PassOver
    /\ buildState' = "done"
    /\ UNCHANGED <<styles, dom, compState, buildPass, pos, cur, built, nextInst,
                   invoked, lastOverride, passChanged, matchInfoReg>>
    /\ UNCHANGED <<matchVars, outsideStyle>>

\* a pass without state mutation: the build has reached its fixed point
BuildReturns ==
    /\ PassOver
    /\ ~passChanged
    /\ buildState' = "done"
    /\ UNCHANGED <<styles, dom, compState, buildPass, pos, cur, built, nextInst,
                   invoked, lastOverride, passChanged, matchInfoReg>>
    /\ UNCHANGED <<matchVars, outsideStyle>>

\* the last pass the cap allows still mutated state
BuildFails ==
    /\ PassOver
    /\ passChanged
    /\ buildPass >= maxBuildPasses
    /\ buildState' = "NonTerminatingBuild"
    /\ UNCHANGED <<styles, dom, compState, buildPass, pos, cur, built, nextInst,
                   invoked, lastOverride, passChanged, matchInfoReg>>
    /\ UNCHANGED <<matchVars, outsideStyle>>

\* the ids of the children of a tree as it is written: 1, 2, ...
kidsOf(types) == [i \in 1..Len(types) |-> Kid(types[i], i)]

TypeLists(types) == UNION {[1..n -> types] : n \in 0..MaxKids}

\* a build starts: first pass, empty registry, the root is mounted first
StartBuild(sl, tree) ==
    /\ styles = sl
    /\ dom = tree
    /\ compState = [p \in 0..Len(tree.kids) |->
                       IF isStateful(origElement(tree, p).componentType)
                       THEN tree.count ELSE 0]
    /\ buildPass = 1
    /\ pos = 0
    /\ cur = origElement(tree, 0)
    /\ built = [root |-> NoElement, kids |-> <<>>]
    /\ nextInst = 2 + Len(tree.kids)
    /\ invoked = <<>>
    /\ lastOverride = NoOverride
    /\ passChanged = FALSE
    /\ buildState = "building"
    /\ matchInfoReg = createMatchInfoReg
    /\ selector = <<>>
    /\ path = <<>>
    /\ matched = NotMatched

IdleOutsideStyle ==
    /\ IdleOps
    /\ IdleTracker
    /\ IdleCommit
    /\ IdleDeploy
    /\ IdleMgr
    /\ IdleRegistry

\* buildOnce of a tree of stateless components
InitBuildOnce ==
    /\ IdleOutsideStyle
    /\ \E sl \in StyleLists({TagSelector("Group"), TagSelector("Empty"),
                               TagSelector("MakeMakeEmpty"), RootNotWrapper},
                              Overrides),
          types \in TypeLists({"Empty", "MakeMakeEmpty"}) :
          StartBuild(sl, Tree("Group", kidsOf(types), 0))

NextBuildOnce ==
    \/ ApplyOverride
    \/ BuildComponent
    \/ MountElement
    \/ BuildOnceReturns
    \/ Reapply

SpecBuildOnce == InitBuildOnce /\ [][NextBuildOnce]_vars

\* build of a tree with components that mutate their state
InitBuild ==
    /\ IdleOutsideStyle
    /\ \E sl \in StyleLists({TagSelector("GroupThenEmpty"), TagSelector("Group"),
                               TagSelector("Empty")},
                              {"origElement", "origBuild", "replace"}),
          count \in 0..MaxMutations :
          \/ StartBuild(sl, Tree("GroupThenEmpty", <<>>, count))
          \/ \E types \in TypeLists({"Iterate", "Empty"}) :
                StartBuild(sl, Tree("Group", kidsOf(types), count))

NextBuild ==
    \/ ApplyOverride
    \/ BuildComponent
    \/ MountElement
    \/ NextPass
    \/ BuildReturns
    \/ BuildFails

SpecBuild == InitBuild /\ [][NextBuild]_vars

\* build with a general rule for Empty and rules for the Empty of one key,
\* in every order, each replacing the element it matches
InitRuleOrder ==
    /\ IdleOutsideStyle
    /\ \E sl \in StyleLists({TagSelector("Empty")} \cup
                               {KeyedSelector("Empty", i) : i \in 1..MaxKids},
                              {"replace"}),
          types \in TypeLists({"Iterate", "Empty"}),
          count \in 0..MaxMutations :
          StartBuild(sl, Tree("Group", kidsOf(types), count))

SpecRuleOrder == InitRuleOrder /\ [][NextBuild]_vars

\* ------------------------------------------------------------------------
\* Properties of buildOnce
\* ------------------------------------------------------------------------
\* the invocations of rule r at position p of the tree during pass q
Invocations(r, p, q) ==
    {i \in 1..Len(invoked) :
        invoked[i].rule = r /\ invoked[i].pos = p /\ invoked[i].pass = q}

\* the invocations of rule r for element instance el during pass q
InvocationsFor(r, el, q) ==
    {i \in 1..Len(invoked) :
        invoked[i].rule = r /\ invoked[i].inst = el /\ invoked[i].pass = q}

\* the elements of the built tree, each with its path
BuiltPaths ==
    {<<built.root>>} \cup {<<built.root, built.kids[p]>> : p \in 1..Len(built.kids)}

AllRules(sfc) == \A r \in 1..Len(styles) : styles[r].sfc = sfc

\* the override that was applied last has just returned: its result is the
\* element being mounted and no rule has been applied to it yet
JustReturned ==
    /\ Mounting
    /\ lastOverride.pass = buildPass
    /\ cur.inst = lastOverride.result
    /\ lastOverride.result # lastOverride.orig
    /\ \A i \in 1..Len(invoked) :
          invoked[i].pass = buildPass => invoked[i].inst # lastOverride.result

\* C23: within one pass the override of a rule is invoked at most once for
\* an element instance, the match stays recorded in the registry for the
\* rest of the pass, and when every rule returns the original build each
\* rule whose selector matches an element of the built tree has been
\* invoked exactly once for that element
C23_RuleInvokedOncePerInstance ==
    /\ \A i, j \in 1..Len(invoked) :
          (i # j /\ invoked[i].rule = invoked[j].rule
                 /\ invoked[i].pass = invoked[j].pass)
             => invoked[i].inst # invoked[j].inst
    /\ \A i \in 1..Len(invoked) :
          invoked[i].pass = buildPass
             => ruleHasMatched(matchInfoReg, invoked[i].inst, invoked[i].rule)
    /\ (buildState = "done" /\ AllRules("origBuild")) =>
          \A bp \in BuiltPaths, r \in 1..Len(styles) :
             Cardinality(InvocationsFor(r, bp[Len(bp)].inst, buildPass)) =
                IF ruleMatch(styles[r].selector, bp) THEN 1 ELSE 0

C23_Witness ==
    /\ buildState = "done"
    /\ buildPass = 1
    /\ styles = [r \in 1..NumRules |-> StyleRule(TagSelector("Empty"), "origBuild")]
    /\ dom.kids = kidsOf(<<"MakeMakeEmpty", "MakeMakeEmpty">>)
    /\ Len(invoked) = 2 * NumRules
    /\ \A r \in 1..NumRules, p \in 1..2 : Cardinality(Invocations(r, p, 1)) = 1

\* C24: ruleNoRematch copies the rules already matched on the original
\* element, the rule being applied among them, to the replacement, and
\* leaves every other rule free to match it; a replacement returned without
\* it starts with no rule matched; and when every rule has the same selector
\* and returns its replacement through ruleNoRematch, each rule is invoked
\* exactly once where the selector matches
C24_RuleNoRematchCopiesMatches ==
    /\ (lastOverride.pass = buildPass /\ lastOverride.sfc = "ruleNoRematch") =>
          /\ lastOverride.rule \in lastOverride.origMatched
          /\ lastOverride.origMatched \subseteq
                getCssMatched(matchInfoReg, lastOverride.result).matched
    /\ (JustReturned /\ lastOverride.sfc = "ruleNoRematch") =>
          getCssMatched(matchInfoReg, cur.inst).matched = lastOverride.origMatched
    /\ (JustReturned /\ lastOverride.sfc \in {"replace", "replaceMake", "replaceSame"}) =>
          getCssMatched(matchInfoReg, cur.inst).matched = {}
    /\ (/\ buildState = "done"
        /\ AllRules("ruleNoRematch")
        /\ \A r \in 1..Len(styles) : styles[r].selector = styles[1].selector) =>
          \A p \in 0..Len(dom.kids) :
             \/ \A r \in 1..Len(styles) : Cardinality(Invocations(r, p, buildPass)) = 1
             \/ \A r \in 1..Len(styles) : Invocations(r, p, buildPass) = {}

C24_Witness ==
    /\ buildState = "done"
    /\ buildPass = 1
    /\ styles = [r \in 1..NumRules |-> StyleRule(TagSelector("Group"), "ruleNoRematch")]
    /\ dom.kids = kidsOf(<<"Empty">>)
    /\ Len(invoked) = NumRules
    /\ \A r \in 1..NumRules : Cardinality(Invocations(r, 0, 1)) = 1
    /\ getCssMatched(matchInfoReg, built.root.inst).matched = 1..NumRules

\* C28: ':root' matches exactly the element whose path has length 1 and
\* ':not(S)' matches exactly when S does not match the same path; so a rule
\* ':root:not(Wrapper)' that replaces its element by a Wrapper is invoked
\* only for a root that is not a Wrapper, replaces it once, and is not
\* invoked for the Wrapper
C28_RootAndNot ==
    /\ Mounting =>
          /\ ruleMatch(<< <<Pseudo("root", <<>>)>> >>, curPath)
                <=> Len(curPath) = 1
          /\ \A t \in {"Group", "Empty", "Wrapper", "MakeMakeEmpty"} :
                ruleMatch(<< <<Pseudo("not", TagSelector(t))>> >>, curPath)
                   <=> ~ruleMatch(TagSelector(t), curPath)
          /\ ruleMatch(RootNotWrapper, curPath)
                <=> (pos = 0 /\ cur.componentType # "Wrapper")
    /\ \A i \in 1..Len(invoked) :
          styles[invoked[i].rule].selector = RootNotWrapper
             => invoked[i].pos = 0 /\ invoked[i].componentType # "Wrapper"
    /\ (/\ buildState = "done"
        /\ AllRules("replace")
        /\ \A r \in 1..Len(styles) : styles[r].selector = RootNotWrapper) =>
          /\ built.root.componentType = "Wrapper"
          /\ Len(built.kids) = Len(dom.kids)
          /\ Len(invoked) = 1
          /\ invoked[1].pass = 1

C28_Witness ==
    /\ buildState = "done"
    /\ buildPass = 2
    /\ styles = <<StyleRule(RootNotWrapper, "replace")>>
    /\ dom = Tree("Wrapper", kidsOf(<<"Empty">>), 0)
    /\ built.root.componentType = "Wrapper"
    /\ Len(invoked) = 1
    /\ invoked[1].componentType = "Group"

\* C29: with the one rule that replaces the MakeMakeEmpty leaf with id 1 and
\* returns the original build of any other, the leaf with id 1 becomes the
\* built form of the substituted element, every other leaf is built
\* normally, and applying the same styles to the result changes nothing
C29_ReplaceFirstIdempotent ==
    (/\ buildState = "done"
     /\ styles = <<StyleRule(TagSelector("MakeMakeEmpty"), "replaceFirst")>>) =>
       /\ buildPass = 1 =>
             /\ Len(built.kids) = Len(dom.kids)
             /\ \A p \in 1..Len(dom.kids) :
                   /\ built.kids[p].componentType = "Empty"
                   /\ built.kids[p].id =
                         IF dom.kids[p] = Kid("MakeMakeEmpty", 1)
                         THEN ReplaceId ELSE dom.kids[p].id
                   /\ Cardinality(Invocations(1, p, 1)) =
                         IF dom.kids[p].componentType = "MakeMakeEmpty" THEN 1 ELSE 0
       /\ buildPass = 2 =>
             /\ finalTree(built) = dom
             /\ \A i \in 1..Len(invoked) : invoked[i].pass = 1

C29_Witness ==
    /\ buildState = "done"
    /\ buildPass = 2
    /\ styles = <<StyleRule(TagSelector("MakeMakeEmpty"), "replaceFirst")>>
    /\ dom = Tree("Group", <<Kid("Empty", ReplaceId), Kid("Empty", 2)>>, 0)
    /\ finalTree(built) = dom
    /\ Len(invoked) = 2

\* ------------------------------------------------------------------------
\* Properties of build
\* ------------------------------------------------------------------------
\* the path of the element a pass starts from at position p, under rules
\* that leave the root in place
origPath(p) ==
    IF p = 0 THEN <<origElement(dom, 0)>>
    ELSE <<origElement(dom, 0), origElement(dom, p)>>

\* pass q has visited every position of the tree
Completed(q) ==
    \/ q < buildPass
    \/ q = buildPass /\ (PassOver \/ buildState # "building")

StatefulAt == {p \in 0..Len(dom.kids) : isStateful(origElement(dom, p).componentType)}

\* the state mutations the component at position p has made
mutationsMade(p) == dom.count - compState[p]

TotalInvocations(r) == {i \in 1..Len(invoked) : invoked[i].rule = r}

\* C25: the match registry belongs to one pass: every match it holds was
\* recorded by an invocation of the current pass; so under rules that return
\* the original element, a rule is invoked exactly once in every pass for
\* each element of the tree its selector matches, and for a component that
\* builds to a Group while it mutates and to an Empty afterwards, a rule
\* matching Empty is invoked exactly once and a rule matching Group once for
\* each mutating pass
C25_RegistryScopedToPass ==
    /\ \A el \in DOMAIN matchInfoReg : \A r \in matchInfoReg[el].matched :
          InvocationsFor(r, el, buildPass) # {}
    /\ AllRules("origElement") =>
          \A q \in 1..buildPass, p \in 0..Len(dom.kids), r \in 1..Len(styles) :
             Completed(q) =>
                Cardinality(InvocationsFor(r, origElement(dom, p).inst, q)) =
                   IF ruleMatch(styles[r].selector, origPath(p)) THEN 1 ELSE 0
    /\ (/\ buildState = "done"
        /\ AllRules("origElement")
        /\ dom.root = "GroupThenEmpty") =>
          \A r \in 1..Len(styles) :
             /\ styles[r].selector = TagSelector("GroupThenEmpty")
                   => Cardinality(TotalInvocations(r)) = buildPass
             /\ styles[r].selector = TagSelector("Empty")
                   => Cardinality(TotalInvocations(r)) = 1
             /\ styles[r].selector = TagSelector("Group")
                   => Cardinality(TotalInvocations(r)) = dom.count

C25_Witness ==
    /\ buildState = "done"
    /\ buildPass = 2
    /\ dom = Tree("GroupThenEmpty", <<>>, 1)
    /\ styles = <<StyleRule(TagSelector("GroupThenEmpty"), "origElement"),
                  StyleRule(TagSelector("Group"), "origElement"),
                  StyleRule(TagSelector("Empty"), "origElement")>>
    /\ Cardinality(TotalInvocations(1)) = 2
    /\ Cardinality(TotalInvocations(2)) = 1
    /\ Cardinality(TotalInvocations(3)) = 1

\* C26: a build whose stateful components mutate their state N times
\* returns after exactly N+1 passes; a rule that replaces a sibling of such
\* a component is invoked once in each of these passes; and the build never
\* runs more passes than the cap: when the last pass the cap allows still
\* mutates state it fails with NonTerminatingBuild
C26_PassesAndCap ==
    /\ buildPass <= maxBuildPasses
    /\ buildState = "done" =>
          /\ \A p \in StatefulAt :
                /\ buildPass = mutationsMade(p) + 1
                /\ compState[p] \in {0, dom.count}
          /\ StatefulAt = {} => buildPass = 1
          /\ ~passChanged
    /\ buildState = "NonTerminatingBuild" =>
          /\ buildPass = maxBuildPasses
          /\ \E p \in StatefulAt : mutationsMade(p) = maxBuildPasses
    /\ (/\ buildState = "done"
        /\ styles = <<StyleRule(TagSelector("Empty"), "replace")>>
        /\ dom.root = "Group") =>
          \A p \in 1..Len(dom.kids) :
             dom.kids[p].componentType = "Empty" =>
                /\ Cardinality(TotalInvocations(1) \cap
                      {i \in 1..Len(invoked) : invoked[i].pos = p}) = buildPass
                /\ \A q \in 1..buildPass : Cardinality(Invocations(1, p, q)) = 1

C26_Witness ==
    /\ buildState = "done"
    /\ dom = Tree("Group", kidsOf(<<"Iterate", "Empty">>), 2)
    /\ styles = <<StyleRule(TagSelector("Empty"), "replace")>>
    /\ mutationsMade(1) = 2
    /\ buildPass = 3
    /\ Len(invoked) = 3
    /\ \A i \in 1..3 : invoked[i].pass = i /\ invoked[i].pos = 2

\* ------------------------------------------------------------------------
\* Properties of the order of rules
\* ------------------------------------------------------------------------
\* the rules that can be applied to the element being mounted
Eligible ==
    {r \in 1..Len(styles) :
        /\ canMatch(matchInfoReg, cur.inst)
        /\ ~ruleHasMatched(matchInfoReg, cur.inst, r)
        /\ ruleMatch(styles[r].selector, curPath)}

\* the rules whose selector matches the child at position p as written
MatchingAsWritten(p) ==
    {r \in 1..Len(styles) : ruleMatch(styles[r].selector, origPath(p))}

\* C37: of the rules that match an element the one latest in the style
\* sheet is applied first; when every rule replaces the element by one that
\* no selector of the sheet matches, then in each pass the latest rule that
\* matches a child is invoked once for it and every earlier rule, a general
\* rule listed first among them, is not invoked for it at all
C37_LaterRulesFirst ==
    /\ [][Len(invoked') > Len(invoked) =>
             \A q \in Eligible : q <= invoked'[Len(invoked')].rule]_vars
    /\ []((buildState = "done" /\ AllRules("replace")) =>
             \A p \in 1..Len(dom.kids), q \in 1..buildPass, r \in 1..Len(styles) :
                Cardinality(Invocations(r, p, q)) =
                   IF MatchingAsWritten(p) # {} /\ r = Highest(MatchingAsWritten(p))
                   THEN 1 ELSE 0)

\* the general rule comes first and the rule for the key of an Empty last,
\* and a sibling of that Empty has mutated its state: the last rule was
\* invoked in every pass, the general rule in none
C37_Witness ==
    /\ buildState = "done"
    /\ buildPass >= 2
    /\ Len(styles) >= 2
    /\ styles[1].selector = TagSelector("Empty")
    /\ \E p \in 1..Len(dom.kids) :
          /\ dom.kids[p].componentType = "Empty"
          /\ styles[Len(styles)].selector = KeyedSelector("Empty", dom.kids[p].id)
          /\ \A q \in 1..buildPass :
                /\ Invocations(1, p, q) = {}
                /\ Cardinality(Invocations(Len(styles), p, q)) = 1
          /\ built.kids[p].componentType = "Wrapper"

\* ------------------------------------------------------------------------
\* withOpsSetup
\* ------------------------------------------------------------------------
Severities == {"info", "warning", "error"}

Message(type, content) == [type |-> type, content |-> content]

\* logger.summary: the number of messages of each severity
summary(messages) ==
    [s \in Severities |->
        Cardinality({i \in 1..Len(messages) : messages[i].type = s})]

\* the responses an operation function resolves to
Responses == {[type |-> t, data |-> d] : t \in {"success", "error"}, d \in Data}

\* the try block after func has resolved: the task is complete and the
\* response of func is returned
opsReturn(o, r) ==
    [o EXCEPT !.pc = "done", !.task = "Complete", !.complete = @ + 1,
              !.ret = [kind |-> "resolved", value |-> r]]

\* withOpsSetup without its catch block
opsCatch_rethrows(o, err) ==
    [o EXCEPT !.pc = "done", !.ret = [kind |-> "rejected", error |-> err]]

\* the catch block: the error is logged, the task has failed and the
\* response is made of what the logger holds
opsCatch(o, err) ==
    LET logged == Append(o.messages, Message("error", err)) IN
    [o EXCEPT !.pc = "done", !.messages = logged, !.task = "Failed",
              !.failed = @ + 1,
              !.ret = [kind |-> "resolved",
                       value |-> [type |-> "error", messages |-> logged,
                                  summary |-> summary(logged)]]]

\* setupLogger has returned: the logger of the options, which may hold
\* messages, or a new one
InitOps ==
    /\ IdleTracker
    /\ IdleCommit
    /\ IdleDeploy
    /\ IdleMgr
    /\ IdleRegistry
    /\ IdleStyle
    /\ \E first \in {<<>>} \cup {<<Message(s, d)>> : s \in Severities, d \in Data} :
          ops = [NoOps EXCEPT !.pc = "loggerReady", !.messages = first]
    /\ plugins = NoPlugins

\* createTaskObserver, taskObserver.started() and the call of func, which
\* throws or hands back a promise
WithOpsSetupCalls ==
    /\ ops.pc = "loggerReady"
    /\ \E o \in {[ops EXCEPT !.task = "Started", !.started = @ + 1]} :
          \/ ops' = [o EXCEPT !.pc = "func"]
          \/ \E err \in Data :
                ops' = opsCatch([o EXCEPT !.func = [kind |-> "throws", error |-> err]], err)
    /\ UNCHANGED <<plugins, outsideOps>>

\* func logs a message
FuncLogs ==
    /\ ops.pc = "func"
    /\ Len(ops.messages) <= MaxData
    /\ \E s \in Severities, d \in Data :
          ops' = [ops EXCEPT !.messages = Append(@, Message(s, d))]
    /\ UNCHANGED <<plugins, outsideOps>>

\* the promise of func resolves
FuncResolves ==
    /\ ops.pc = "func"
    /\ \E r \in Responses :
          ops' = opsReturn([ops EXCEPT !.func = [kind |-> "resolves", value |-> r]], r)
    /\ UNCHANGED <<plugins, outsideOps>>

\* the promise of func rejects
FuncRejects ==
    /\ ops.pc = "func"
    /\ \E err \in Data :
          ops' = opsCatch([ops EXCEPT !.func = [kind |-> "rejects", error |-> err]], err)
    /\ UNCHANGED <<plugins, outsideOps>>

NextOps ==
    \/ WithOpsSetupCalls
    \/ FuncLogs
    \/ FuncResolves
    \/ FuncRejects

SpecOps == InitOps /\ [][NextOps]_vars

\* C31: once the logger is set up withOpsSetup never rejects. When func
\* throws or rejects, the error is logged, the task has failed and the
\* response has type error and carries the messages and the summary of the
\* logger; when func resolves, its response is returned and the task is
\* complete. The task is started exactly once and ends in exactly one of
\* complete and failed.
C31_WithOpsSetupAlwaysResolves ==
    /\ ops.ret.kind # "rejected"
    /\ ops.pc = "func" =>
          /\ ops.started = 1
          /\ ops.task = "Started"
          /\ ops.complete + ops.failed = 0
    /\ ops.pc = "done" =>
          /\ ops.ret.kind = "resolved"
          /\ ops.started = 1
          /\ ops.complete + ops.failed = 1
          /\ ops.func.kind \in {"throws", "rejects"} =>
                /\ ops.task = "Failed"
                /\ ops.failed = 1
                /\ ops.ret.value.type = "error"
                /\ ops.ret.value.messages = ops.messages
                /\ ops.ret.value.summary = summary(ops.messages)
                /\ ops.messages[Len(ops.messages)] = Message("error", ops.func.error)
                /\ ops.ret.value.summary["error"] >= 1
          /\ ops.func.kind = "resolves" =>
                /\ ops.task = "Complete"
                /\ ops.complete = 1
                /\ ops.ret.value = ops.func.value

\* func has logged and then rejected: the response holds what was logged
\* before, by the caller and by func, and the error
C31_Witness ==
    /\ ops.pc = "done"
    /\ ops.func.kind = "rejects"
    /\ ops.task = "Failed"
    /\ ops.ret.kind = "resolved"
    /\ ops.ret.value.type = "error"
    /\ Len(ops.ret.value.messages) >= 3
    /\ ops.ret.value.summary["warning"] >= 1

\* ------------------------------------------------------------------------
\* Plugin registration
\* ------------------------------------------------------------------------
\* the names plugins register under, the packages their modules belong to
\* and their create functions
PluginNames == {"echo", "second"}

Packages == {"echo_plugin@1.0.0", "other_plugin@1.0.0"}

Creates == {"create", "otherCreate"}

\* a registry keyed by the name alone
pluginKey_nameOnly(name, package) == <<name>>

\* a plugin is known by its name and the package it comes from
pluginKey(name, package) == <<name, package>>

\* registerPlugin: [threw, modules |-> the plugin modules afterwards]
registerPlugin(modules, name, package, create) ==
    LET key == pluginKey(name, package) IN
    IF key \in DOMAIN modules
    THEN [threw |-> modules[key] # create, modules |-> modules]
    ELSE [threw |-> FALSE,
          modules |-> [k \in DOMAIN modules \cup {key} |->
                          IF k = key THEN create ELSE modules[k]]]

\* a module that registers a plugin is loaded
RegisterPlugin ==
    /\ \E name \in PluginNames, package \in Packages, create \in Creates :
       \E r \in {registerPlugin(plugins.modules, name, package, create)} :
          plugins' = [plugins EXCEPT
                         !.modules = r.modules,
                         !.ret = [kind |-> IF r.threw THEN "error" ELSE "ok",
                                  name |-> name, package |-> package,
                                  create |-> create]]
    /\ UNCHANGED <<ops, outsideOps>>

\* createPluginManager(pluginModules) and mgr.start: every registered plugin
\* is started; without a plugin createPluginConfig throws
StartPlugins ==
    /\ plugins.modules # NoModules
    /\ plugins' = [plugins EXCEPT !.started = DOMAIN plugins.modules,
                                   !.ret = [kind |-> "started"]]
    /\ UNCHANGED <<ops, outsideOps>>

InitPlugins ==
    /\ IdleTracker
    /\ IdleCommit
    /\ IdleDeploy
    /\ IdleMgr
    /\ IdleRegistry
    /\ IdleStyle
    /\ IdleOps

NextPlugins ==
    \/ RegisterPlugin
    \/ StartPlugins

SpecPlugins == InitPlugins /\ [][NextPlugins]_vars

\* this step is a registerPlugin call
Registers == plugins'.ret.kind \in {"ok", "error"}

\* the key the plugin of this call is known by
CallKey == <<plugins'.ret.name, plugins'.ret.package>>

\* C32: registering a plugin under a name that is registered from the same
\* package with another create function fails and leaves the plugin modules
\* as they were; registering it again with the same create function changes
\* nothing and raises no error; a plugin whose name or whose package differs
\* from those registered is added beside them, and a plugin manager starts
\* every registered plugin
C32_PluginRegistration ==
    /\ [][Registers =>
             IF CallKey \in DOMAIN plugins.modules
             THEN /\ plugins'.modules = plugins.modules
                  /\ plugins'.ret.kind = "error"
                        <=> plugins.modules[CallKey] # plugins'.ret.create
             ELSE /\ plugins'.ret.kind = "ok"
                  /\ DOMAIN plugins'.modules = DOMAIN plugins.modules \cup {CallKey}
                  /\ plugins'.modules[CallKey] = plugins'.ret.create
                  /\ \A k \in DOMAIN plugins.modules :
                        plugins'.modules[k] = plugins.modules[k]]_vars
    /\ [][plugins'.ret.kind = "started" =>
             /\ plugins'.started = DOMAIN plugins.modules
             /\ plugins'.modules = plugins.modules]_vars

\* two names from one package and one name from two packages are registered
\* and started
C32_Witness ==
    /\ plugins.ret.kind = "started"
    /\ {<<"echo", "echo_plugin@1.0.0">>, <<"second", "echo_plugin@1.0.0">>,
         <<"echo", "other_plugin@1.0.0">>} \subseteq plugins.started
    /\ plugins.modules[<<"echo", "echo_plugin@1.0.0">>] = "create"

====
